---- MODULE Spec2Model ----
(***************************************************************************)
(* Read-receipt subsystem: the app layer (post_read_receipts.go), the SQL  *)
(* store (post_read_receipt_store.go) and the receipt model                *)
(* (PostReadReceipt.IsValid / PreSave).                                    *)
(*                                                                         *)
(* Tables are sets of rows; the primary key of PostReadReceipts is         *)
(* (PostId, UserId).  Every request handler is one action, except the      *)
(* backfill, whose per-pair existence lookups and per-receipt writes are   *)
(* separate store calls and therefore separate steps that other requests   *)
(* may interleave with.                                                    *)
(***************************************************************************)
EXTENDS Integers, Sequences, FiniteSets, TLC

VARIABLES
    cfg,        \* ServiceSettings: enable, team, deflt, privDel, driver
    prefs,      \* per user: the read-receipt preferences ("" = not set)
    receipts,   \* table PostReadReceipts: a set of rows
    summaries,  \* table PostReadReceiptSummary: a set of rows
    audit,      \* table ReadReceiptAuditLog: a sequence of entries
    refreshQ,   \* the detached summary updates that are running, in start order
    delQ,       \* the deleteReceipt calls between their two store statements
    now,        \* model.GetMillis()
    bf,         \* the running BackfillReadReceiptsForChannel call, if any
    ret         \* the last completed request: its inputs and what it returned

vars == <<cfg, prefs, receipts, summaries, audit, refreshQ, delQ, now, bf, ret>>

----------------------------------------------------------------------------
(* Bounds and input sets *)

\* Requests are served at times 1 .. MaxTime - 1; every request takes one tick.
MaxTime == 3

Users == {"u1", "u2"}

\* "px" is a well-formed id that resolves to no post.
PostIds == {"p1", "p2", "p3", "p4", "p5", "p6", "px"}

ReadAts == {0, 1, 2}

DeviceIds == {"", "mobile1"}

\* The longest receipt list the batch publisher is applied to.
MaxPublish == 3

\* The most summary updates that run at the same time.
MaxTasks == 2

\* deleteReceipt calls that may be between their two store statements at once.
MaxDeletes == 1

\* The posts whose summary is seeded and updated.
RefreshPosts == {"p1", "p4"}

\* Whether the store statement of a request fails (connectivity), per request.
Faults == {"none", "store"}

\* Posts that markRead and deleteReceipt are tried on.
MarkPostIds == {"p1", "p4", "px"}

\* The batch requests that are tried: three posts of which one is in an open
\* channel, no channel id / no readAt / no device, a repeated post id, a post
\* id that does not resolve, and no post id at all.
BatchRequests ==
    { [PostIds |-> <<"p1", "p4", "p2">>, ChannelId |-> "cD", ReadAt |-> 2,
       DeviceId |-> "mobile1"],
      [PostIds |-> <<"p1">>, ChannelId |-> "", ReadAt |-> 0, DeviceId |-> ""],
      [PostIds |-> <<"p1", "p1">>, ChannelId |-> "cD", ReadAt |-> 1,
       DeviceId |-> ""],
      [PostIds |-> <<"px", "p2">>, ChannelId |-> "cD", ReadAt |-> 1,
       DeviceId |-> "mobile1"],
      [PostIds |-> <<>>, ChannelId |-> "", ReadAt |-> 1, DeviceId |-> ""] }

\* The receipt-info queries that are tried.
InfoQueries ==
    { [post |-> "p1", user |-> "u1", fault |-> "none"],
      [post |-> "p1", user |-> "u2", fault |-> "none"],
      [post |-> "p2", user |-> "u1", fault |-> "none"],
      [post |-> "p4", user |-> "u2", fault |-> "none"],
      [post |-> "p5", user |-> "u1", fault |-> "none"],
      [post |-> "px", user |-> "u1", fault |-> "none"],
      [post |-> "p1", user |-> "u1", fault |-> "store"] }

\* The channel-summary queries that are tried.
SummaryQueries ==
    { [chan |-> "cD", user |-> "u1", since |-> 0, fault |-> "none"],
      [chan |-> "cD", user |-> "u2", since |-> 2, fault |-> "none"],
      [chan |-> "cG", user |-> "u1", since |-> 0, fault |-> "store"],
      [chan |-> "cO", user |-> "u1", since |-> 0, fault |-> "none"],
      [chan |-> "cP", user |-> "u2", since |-> 2, fault |-> "none"],
      [chan |-> "cx", user |-> "u1", since |-> 0, fault |-> "none"] }

\* The history queries that are tried.
HistoryQueries ==
    { [user |-> "u1", chan |-> "", since |-> 0, limit |-> 2, fault |-> "none"],
      [user |-> "u1", chan |-> "cD", since |-> 2, limit |-> 1, fault |-> "none"],
      [user |-> "u2", chan |-> "", since |-> 2, limit |-> 2, fault |-> "none"],
      [user |-> "u2", chan |-> "cD", since |-> 0, limit |-> 1, fault |-> "store"] }

\* Configuration and preferences the server is started with.
Deployments ==
    { [cfg |-> [enable |-> TRUE, team |-> TRUE, deflt |-> "enabled",
                privDel |-> TRUE, driver |-> "postgres"],
       prefs |-> [u1 |-> [mode |-> "", show |-> ""],
                  u2 |-> [mode |-> "disabled", show |-> "none"]]],
      [cfg |-> [enable |-> TRUE, team |-> FALSE, deflt |-> "disabled",
                privDel |-> FALSE, driver |-> "mysql"],
       prefs |-> [u1 |-> [mode |-> "enabled", show |-> "none"],
                  u2 |-> [mode |-> "", show |-> "all"]]],
      [cfg |-> [enable |-> TRUE, team |-> FALSE, deflt |-> "enabled",
                privDel |-> TRUE, driver |-> "mysql"],
       prefs |-> [u1 |-> [mode |-> "", show |-> ""],
                  u2 |-> [mode |-> "", show |-> ""]]],
      [cfg |-> [enable |-> FALSE, team |-> TRUE, deflt |-> "enabled",
                privDel |-> TRUE, driver |-> "postgres"],
       prefs |-> [u1 |-> [mode |-> "", show |-> ""],
                  u2 |-> [mode |-> "", show |-> ""]]] }

----------------------------------------------------------------------------
(* Collaborators: posts, channels, members, as the resolvers return them *)

ChannelTypeDirect  == "D"
ChannelTypeGroup   == "G"
ChannelTypeOpen    == "O"
ChannelTypePrivate == "P"

ChannelIds == {"cD", "cG", "cO", "cP"}

\* "cx" is a well-formed id that resolves to no channel.
ChannelInputs == ChannelIds \cup {"cx"}

ChannelType(c) ==
    CASE c = "cD" -> ChannelTypeDirect
      [] c = "cG" -> ChannelTypeGroup
      [] c = "cO" -> ChannelTypeOpen
      [] OTHER    -> ChannelTypePrivate

\* GetSinglePost / GetPostsByIds: the posts that exist.
Posts ==
    [ p1 |-> [Id |-> "p1", ChannelId |-> "cD", UserId |-> "u2", CreateAt |-> 1],
      p2 |-> [Id |-> "p2", ChannelId |-> "cD", UserId |-> "u1", CreateAt |-> 1],
      p3 |-> [Id |-> "p3", ChannelId |-> "cD", UserId |-> "u2", CreateAt |-> 3],
      p4 |-> [Id |-> "p4", ChannelId |-> "cO", UserId |-> "u1", CreateAt |-> 1],
      p5 |-> [Id |-> "p5", ChannelId |-> "cG", UserId |-> "u1", CreateAt |-> 1],
      p6 |-> [Id |-> "p6", ChannelId |-> "cO", UserId |-> "u2", CreateAt |-> 1] ]

PostExists(p) == p \in DOMAIN Posts

\* GetPostsForChannel(channelId, 0, 60): the channel's posts, in a fixed order.
PostsForChannel(c) ==
    IF c = "cD" THEN <<"p1", "p2", "p3">>
    ELSE IF c = "cO" THEN <<"p4", "p6">>
    ELSE IF c = "cG" THEN <<"p5">>
    ELSE <<>>

\* GetChannelMembers(channelId, 0, 200): members with their LastViewedAt.
ChannelMembers(c) ==
    IF c = "cD"
    THEN << [UserId |-> "u1", LastViewedAt |-> 2],
            [UserId |-> "u2", LastViewedAt |-> 1] >>
    ELSE IF c = "cO"
    THEN << [UserId |-> "u1", LastViewedAt |-> 0],
            [UserId |-> "u2", LastViewedAt |-> 2] >>
    ELSE <<>>

----------------------------------------------------------------------------
(* Model constants (public/model) *)

DeviceTypeDesktop == "desktop"
DeviceTypeMobile  == "mobile"
DeviceTypeWeb     == "web"
DeviceTypeUnknown == "unknown"

ReadReceiptModeDisabled == "disabled"
ReadReceiptModeEnabled  == "enabled"

ReadReceiptActionPrivacyView == "privacy_view"

DatabaseDriverPostgres == "postgres"
DatabaseDriverMysql    == "mysql"

\* Error ids of the AppErrors the handlers return ("none" = nil).
ErrNone            == "none"
ErrDisabled        == "app.post.read_receipt.disabled.app_error"
ErrChannelType     == "app.post.read_receipt.channel_type.app_error"
ErrUserDisabled    == "app.post.read_receipt.user_disabled.app_error"
ErrNotFound        == "not_found"
ErrValidPostId     == "model.post_read_receipt.is_valid.post_id.app_error"
ErrValidUserId     == "model.post_read_receipt.is_valid.user_id.app_error"
ErrValidChannelId  == "model.post_read_receipt.is_valid.channel_id.app_error"
ErrValidReadAt     == "model.post_read_receipt.is_valid.read_at.app_error"
ErrValidCreateAt   == "model.post_read_receipt.is_valid.create_at.app_error"
ErrValidDeviceType == "model.post_read_receipt.is_valid.device_type.app_error"
ErrSave            == "app.post.read_receipt.save.app_error"
ErrBatchSave       == "app.post.read_receipt.batch_save.app_error"
ErrPrivacyDeletion == "app.post.read_receipt.privacy_deletion_disabled.app_error"
ErrDelete          == "app.post.read_receipt.delete.app_error"
ErrGetInfo         == "app.post.read_receipt.get_info.app_error"
ErrGetSummaries    == "app.post.read_receipt.get_summaries.app_error"
ErrSaveAudit       == "save_read_receipt_audit_log"
ErrUpdateSummary   == "update_read_receipt_summary"
ErrGetUserReceipts == "app.post.read_receipt.get_user_receipts.app_error"
ErrDeleteForUser    == "delete_read_receipts_for_user"
ErrDeleteForPost    == "delete_read_receipts_for_post"
ErrDeleteForChannel == "delete_read_receipts_for_channel"
ErrCleanup          == "cleanup_old_read_receipts"
ErrAnonymize        == "anonymize_read_receipts_for_user"
ErrBatchPostIds    == "model.read_receipt_batch_request.is_valid.post_ids.app_error"
ErrBatchSize       == "model.read_receipt_batch_request.is_valid.batch_size.app_error"
ErrBatchPostId     == "model.read_receipt_batch_request.is_valid.post_id.app_error"
ErrBatchChannelId  == "model.read_receipt_batch_request.is_valid.channel_id.app_error"
ErrPermission      == "api.context.permissions.app_error"

\* The error taxonomy of the design, by error id.
ErrorClass(e) ==
    CASE e = ErrNone -> "Ok"
      [] e = ErrDisabled -> "FeatureDisabled"
      [] e \in {ErrChannelType, ErrUserDisabled, ErrPrivacyDeletion} -> "PolicyViolation"
      [] e = ErrNotFound -> "NotFound"
      [] e \in {ErrValidPostId, ErrValidUserId, ErrValidChannelId, ErrValidReadAt,
                ErrValidCreateAt, ErrValidDeviceType, ErrBatchPostIds, ErrBatchSize,
                ErrBatchPostId, ErrBatchChannelId} -> "ValidationError"
      [] e = ErrPermission -> "PermissionDenied"
      [] OTHER -> "StorageError"

----------------------------------------------------------------------------
(* public/model: PostReadReceipt *)

Receipt(p, u, c, readAt, createAt, dev, devType) ==
    [PostId |-> p, UserId |-> u, ChannelId |-> c, ReadAt |-> readAt,
     CreateAt |-> createAt, DeviceId |-> dev, DeviceType |-> devType,
     SessionId |-> ""]

\* IsValidId: ids are 26-character strings; the empty string is not one.
IsValidId(id) == id # ""

ValidDeviceTypes ==
    {DeviceTypeDesktop, DeviceTypeMobile, DeviceTypeWeb, DeviceTypeUnknown}

\* PostReadReceipt.IsValid: the id of the first failed check, or ErrNone.
IsValid(r) ==
    IF ~IsValidId(r.PostId) THEN ErrValidPostId
    ELSE IF ~IsValidId(r.UserId) THEN ErrValidUserId
    ELSE IF ~IsValidId(r.ChannelId) THEN ErrValidChannelId
    ELSE IF r.ReadAt = 0 THEN ErrValidReadAt
    ELSE IF r.CreateAt = 0 THEN ErrValidCreateAt
    ELSE IF r.DeviceType # "" /\ r.DeviceType \notin ValidDeviceTypes
         THEN ErrValidDeviceType
    ELSE ErrNone

\* PostReadReceipt.PreSave at time t.
PreSave(r, t) ==
    [r EXCEPT !.CreateAt   = IF @ = 0 THEN t ELSE @,
              !.ReadAt     = IF @ = 0 THEN t ELSE @,
              !.DeviceType = IF @ = "" THEN DeviceTypeUnknown ELSE @]

----------------------------------------------------------------------------
(* app: helpers *)

\* Variant of the channel-type rule that admits team channels whatever the
\* configuration says.
ChannelTypeAllowedAnyTeam(type, teamChannels) ==
    type \in {ChannelTypeDirect, ChannelTypeGroup, ChannelTypeOpen, ChannelTypePrivate}

\* The channel-type rule each handler repeats: DM and GM always, team
\* channels only with ReadReceiptsEnableTeamChannels.
ChannelTypeAllowed(type, teamChannels) ==
    LET allowed == type = ChannelTypeDirect \/ type = ChannelTypeGroup
    IN  IF ~allowed /\ teamChannels
        THEN type = ChannelTypeOpen \/ type = ChannelTypePrivate
        ELSE allowed

\* Variant of the receipt mode that ignores the user's preference.
ReceiptModeOfDefault(u) == cfg.deflt

\* GetUserReadReceiptSettings(userId).ReceiptMode
ReceiptModeOf(u) ==
    IF prefs[u].mode # "" THEN prefs[u].mode ELSE cfg.deflt

\* Variant of the visibility setting that ignores the user's preference.
ShowOthersOfAll(u) == "all"

\* GetUserReadReceiptSettings(userId).ShowOthersReceipts
ShowOthersOf(u) ==
    IF prefs[u].show # "" THEN prefs[u].show ELSE "all"

\* App.DetectDeviceType
DetectDeviceType(dev) ==
    IF dev = "" THEN DeviceTypeUnknown ELSE DeviceTypeWeb

----------------------------------------------------------------------------
(* sqlstore: PostReadReceipts *)

RowsOf(T, p, u) == {x \in T : x.PostId = p /\ x.UserId = u}

\* The statement of SaveReadReceipt: INSERT ... ON CONFLICT (PostId, UserId)
\* DO UPDATE SET ReadAt, CreateAt, DeviceId, DeviceType, SessionId.
UpsertReceipt(T, r) ==
    IF RowsOf(T, r.PostId, r.UserId) = {}
    THEN T \cup {r}
    ELSE { IF x.PostId = r.PostId /\ x.UserId = r.UserId
           THEN [x EXCEPT !.ReadAt = r.ReadAt, !.CreateAt = r.CreateAt,
                          !.DeviceId = r.DeviceId, !.DeviceType = r.DeviceType,
                          !.SessionId = r.SessionId]
           ELSE x : x \in T }

\* SqlPostReadReceiptStore.SaveReadReceipt at time t: the table afterwards.
\* fault = "store": Exec fails and nothing is written.
StoreSaveReadReceipt(T, receipt, t, fault) ==
    IF fault = "store" THEN T ELSE UpsertReceipt(T, PreSave(receipt, t))

\* strings.Contains(deviceId, "mobile") / (deviceId, "desktop")
ContainsMobile(dev)  == dev \in {"mobile1"}
ContainsDesktop(dev) == dev \in {"desktop1"}

\* The device type SaveReadReceiptBatch computes for the whole batch.
BatchDeviceType(dev) ==
    IF dev # ""
    THEN IF ContainsMobile(dev) THEN DeviceTypeMobile
         ELSE IF ContainsDesktop(dev) THEN DeviceTypeDesktop
         ELSE DeviceTypeWeb
    ELSE DeviceTypeWeb

\* Variant of the batch row without a conflict clause: a plain insert.
UpsertBatchRowAppend(T, r) == T \cup {r}

\* One VALUES row of the batch statement with its conflict clause:
\* ON CONFLICT (PostId, UserId) DO UPDATE SET ReadAt, CreateAt.
UpsertBatchRow(T, r) ==
    IF RowsOf(T, r.PostId, r.UserId) = {}
    THEN T \cup {r}
    ELSE { IF x.PostId = r.PostId /\ x.UserId = r.UserId
           THEN [x EXCEPT !.ReadAt = r.ReadAt, !.CreateAt = r.CreateAt]
           ELSE x : x \in T }

RECURSIVE ApplyBatchRows(_, _)
ApplyBatchRows(T, rows) ==
    IF rows = <<>> THEN T
    ELSE ApplyBatchRows(UpsertBatchRow(T, Head(rows)), Tail(rows))

HasDuplicates(ids) ==
    \E i, j \in 1..Len(ids) : i < j /\ ids[i] = ids[j]

\* The rows of the batch statement: one per requested post id, all with the
\* batch's channel id, read time and device.
BatchRows(batch, t) ==
    [ i \in 1..Len(batch.PostIds) |->
        Receipt(batch.PostIds[i], batch.UserId, batch.ChannelId, batch.ReadAt,
                t, batch.DeviceId, BatchDeviceType(batch.DeviceId)) ]

\* Variant of the batch write that, when it fails, has already committed its
\* first row.
StoreSaveReadReceiptBatchPartial(T, batch, t, driver, fault) ==
    IF Len(batch.PostIds) = 0
    THEN [failed |-> FALSE, table |-> T]
    ELSE IF fault = "store"
            \/ (driver = DatabaseDriverPostgres /\ HasDuplicates(batch.PostIds))
    THEN [failed |-> TRUE,
          table |-> ApplyBatchRows(T, SubSeq(BatchRows(batch, t), 1, 1))]
    ELSE [failed |-> FALSE, table |-> ApplyBatchRows(T, BatchRows(batch, t))]

\* SqlPostReadReceiptStore.SaveReadReceiptBatch at time t: whether it failed
\* and the table afterwards.  PostgreSQL rejects a statement whose rows hit
\* the same key twice; MySQL applies the rows in order.
StoreSaveReadReceiptBatch(T, batch, t, driver, fault) ==
    IF Len(batch.PostIds) = 0
    THEN [failed |-> FALSE, table |-> T]
    ELSE IF fault = "store"
            \/ (driver = DatabaseDriverPostgres /\ HasDuplicates(batch.PostIds))
    THEN [failed |-> TRUE, table |-> T]
    ELSE [failed |-> FALSE, table |-> ApplyBatchRows(T, BatchRows(batch, t))]

\* Variant of the delete statement without the UserId condition.
StoreDeleteReadReceiptOfPost(T, p, u) == {x \in T : x.PostId # p}

\* The statement of DeleteReadReceipt.
StoreDeleteReadReceipt(T, p, u) == T \ RowsOf(T, p, u)

\* The statement of DeleteReadReceiptsForUser.
StoreDeleteReadReceiptsForUser(T, u) == {x \in T : x.UserId # u}

\* The statement of DeleteReadReceiptsForPost.
StoreDeleteReadReceiptsForPost(T, p) == {x \in T : x.PostId # p}

\* The statement of DeleteReadReceiptsForChannel.
StoreDeleteReadReceiptsForChannel(T, c) == {x \in T : x.ChannelId # c}

\* The statement of CleanupOldReadReceipts at time t: the rows created
\* before t minus daysOld days go.
StoreCleanupOldReadReceipts(T, daysOld, t) ==
    {x \in T : ~(x.CreateAt < t - daysOld * 24 * 60 * 60 * 1000)}

\* The statement of AnonymizeReadReceiptsForUser.
StoreAnonymizeReadReceiptsForUser(T, u) ==
    { IF x.UserId = u
      THEN [x EXCEPT !.DeviceId = "ANONYMIZED", !.DeviceType = DeviceTypeUnknown,
                     !.SessionId = ""]
      ELSE x : x \in T }

\* Variant of the audit insert that keeps one entry per user: an upsert.
StoreSaveReadReceiptAuditLogPerUser(log, entry, fault) ==
    IF fault = "audit" THEN log
    ELSE Append(SelectSeq(log, LAMBDA e : e.UserId # entry.UserId), entry)

\* SqlPostReadReceiptStore.SaveReadReceiptAuditLog: INSERT INTO
\* ReadReceiptAuditLog; the log afterwards.  fault = "audit": Exec fails.
StoreSaveReadReceiptAuditLog(log, entry, fault) ==
    IF fault = "audit" THEN log ELSE Append(log, entry)

\* A row of PostReadReceiptSummary.
Summary(p, c, readCount, total, lastUpdated, firstReadAt, lastReadAt) ==
    [PostId |-> p, ChannelId |-> c, ReadCount |-> readCount,
     TotalRecipients |-> total, LastUpdated |-> lastUpdated,
     FirstReadAt |-> firstReadAt, LastReadAt |-> lastReadAt]

\* Variant of the summary upsert that never lowers LastUpdated.
StoreUpdateReadReceiptSummaryNewest(T, summary, fault) ==
    IF fault = "store" THEN T
    ELSE IF \A x \in T : x.PostId # summary.PostId
    THEN T \cup {summary}
    ELSE { IF x.PostId = summary.PostId /\ x.LastUpdated <= summary.LastUpdated
           THEN [x EXCEPT !.ReadCount = summary.ReadCount,
                          !.TotalRecipients = summary.TotalRecipients,
                          !.LastUpdated = summary.LastUpdated,
                          !.FirstReadAt = summary.FirstReadAt,
                          !.LastReadAt = summary.LastReadAt]
           ELSE x : x \in T }

\* SqlPostReadReceiptStore.UpdateReadReceiptSummary: INSERT ... ON CONFLICT
\* (PostId) DO UPDATE SET ReadCount, TotalRecipients, LastUpdated,
\* FirstReadAt, LastReadAt; the table afterwards.
StoreUpdateReadReceiptSummary(T, summary, fault) ==
    IF fault = "store" THEN T
    ELSE IF \A x \in T : x.PostId # summary.PostId
    THEN T \cup {summary}
    ELSE { IF x.PostId = summary.PostId
           THEN [x EXCEPT !.ReadCount = summary.ReadCount,
                          !.TotalRecipients = summary.TotalRecipients,
                          !.LastUpdated = summary.LastUpdated,
                          !.FirstReadAt = summary.FirstReadAt,
                          !.LastReadAt = summary.LastReadAt]
           ELSE x : x \in T }

\* All orders in which a SELECT ... ORDER BY ReadAt DESC may return rows S.
OrderedByReadAtDesc(S) ==
    { s \in [1..Cardinality(S) -> S] :
        /\ \A i, j \in 1..Cardinality(S) : i # j => s[i] # s[j]
        /\ \A i, j \in 1..Cardinality(S) : i < j => s[i].ReadAt >= s[j].ReadAt }

\* Limit(n) of a result.
Limit(s, n) == IF Len(s) <= n THEN s ELSE SubSeq(s, 1, n)

----------------------------------------------------------------------------
(* The result of a request *)

NoInfo ==
    [PostId |-> "", ChannelId |-> "", ReadReceipts |-> <<>>, TotalUsers |-> 0,
     ReadCount |-> 0, LastRead |-> 0, FirstRead |-> 0,
     PartiallyRead |-> FALSE, AllRead |-> FALSE]

\* op: the operation; err: the error id it returned; user .. limit: its
\* inputs; receipts, info, sums: what it returned; events: what it published;
\* lookups: the channels it resolved with GetChannel, in call order; count:
\* the number of rows it reported as affected.
Ret(op, err) ==
    [op |-> op, err |-> err, user |-> "", posts |-> <<>>, chan |-> "",
     readAt |-> 0, dev |-> "", fault |-> "none", since |-> 0, limit |-> 0,
     receipts |-> <<>>, events |-> {}, info |-> NoInfo, sums |-> <<>>,
     lookups |-> <<>>, count |-> 0]

Event(type, channel) ==
    [type |-> type, channel |-> channel, post_id |-> "", user_id |-> "",
     read_at |-> 0, receipts |-> <<>>, count |-> 0]

\* App.PublishReadReceiptEvent: the event published.
PublishReadReceiptEvent(receipt) ==
    { [Event("post_read", receipt.ChannelId) EXCEPT
          !.post_id = receipt.PostId, !.user_id = receipt.UserId,
          !.read_at = receipt.ReadAt] }

\* Variant of the batch publisher: one event per receipt.
PublishReadReceiptBatchEventEach(rs) ==
    { [Event("post_read_batch", rs[i].ChannelId) EXCEPT
          !.receipts = <<rs[i]>>, !.count = 1] : i \in 1..Len(rs) }

\* App.PublishReadReceiptBatchEvent: the events published, one per channel.
PublishReadReceiptBatchEvent(rs) ==
    { [Event("post_read_batch", c) EXCEPT
          !.receipts = SelectSeq(rs, LAMBDA r : r.ChannelId = c),
          !.count = Len(SelectSeq(rs, LAMBDA r : r.ChannelId = c))] :
      c \in {rs[i].ChannelId : i \in 1..Len(rs)} }

----------------------------------------------------------------------------
(* app: UpdateReadReceiptSummaryAsync *)

NoSummary == Summary("", "", 0, 0, 0, 0, 0)

\* The goroutine of UpdateReadReceiptSummaryAsync(channelId, postId) when it
\* starts.  pc: the store call or clock read it makes next; summary: its
\* local copy of the row.
RefreshTask(p) == [post |-> p, pc |-> "get", summary |-> NoSummary]

\* The running tasks without the i-th, which has ended.
WithoutTask(q, i) == SubSeq(q, 1, i - 1) \o SubSeq(q, i + 1, Len(q))

\* The method called on its own: it starts the goroutine and returns.
UpdateReadReceiptSummaryAsync(c, p) ==
    /\ Len(refreshQ) < MaxTasks
    /\ refreshQ' = Append(refreshQ, RefreshTask(p))
    /\ UNCHANGED <<cfg, prefs, delQ, receipts, summaries, audit, now, bf, ret>>

\* GetReadReceiptSummary(postId): no row or a failed select ends the task.
RefreshGet(i, fault) ==
    /\ i \in 1..Len(refreshQ)
    /\ refreshQ[i].pc = "get"
    /\ LET rows == {x \in summaries : x.PostId = refreshQ[i].post}
       IN  IF fault = "store" \/ rows = {}
           THEN refreshQ' = WithoutTask(refreshQ, i)
           ELSE \E x \in rows :
                  refreshQ' = [refreshQ EXCEPT ![i].pc = "stamp", ![i].summary = x]
    /\ UNCHANGED <<cfg, prefs, delQ, receipts, summaries, audit, now, bf, ret>>

\* summary.LastUpdated = model.GetMillis()
RefreshStamp(i) ==
    /\ i \in 1..Len(refreshQ)
    /\ refreshQ[i].pc = "stamp"
    /\ refreshQ' = [refreshQ EXCEPT ![i].pc = "write",
                                    ![i].summary.LastUpdated = now]
    /\ UNCHANGED <<cfg, prefs, delQ, receipts, summaries, audit, now, bf, ret>>

\* UpdateReadReceiptSummary(summary): a failed upsert is logged; the task ends.
RefreshWrite(i, fault) ==
    /\ i \in 1..Len(refreshQ)
    /\ refreshQ[i].pc = "write"
    /\ summaries' = StoreUpdateReadReceiptSummary(summaries, refreshQ[i].summary, fault)
    /\ refreshQ' = WithoutTask(refreshQ, i)
    /\ UNCHANGED <<cfg, prefs, delQ, receipts, audit, now, bf, ret>>

\* The rows a caller of the store's UpdateReadReceiptSummary writes for a
\* post nobody has read yet.
SummaryInputs ==
    { Summary(p, Posts[p].ChannelId, 0, Len(ChannelMembers(Posts[p].ChannelId)),
              t, 0, 0) : p \in RefreshPosts, t \in 1..MaxTime }

\* The store call on its own, with a row stamped with the current time.
UpdateReadReceiptSummary(summary, fault) ==
    /\ now < MaxTime
    /\ summary.LastUpdated = now
    /\ summaries' = StoreUpdateReadReceiptSummary(summaries, summary, fault)
    /\ ret' = [Ret("updateSummary", IF fault = "store" THEN ErrUpdateSummary ELSE ErrNone)
                  EXCEPT !.posts = <<summary.PostId>>, !.chan = summary.ChannelId,
                         !.fault = fault]
    /\ now' = now + 1
    /\ UNCHANGED <<cfg, prefs, delQ, receipts, audit, refreshQ, bf>>

----------------------------------------------------------------------------
(* app: SaveReadReceiptForPost *)

\* Variant of the feature check that never rejects.
FeatureEnabledAlways == TRUE

\* *a.Config().ServiceSettings.EnableReadReceipts
FeatureEnabled == cfg.enable

\* The channel of a post is allowed for read receipts.
PostChannelAllowed(p) ==
    ChannelTypeAllowed(ChannelType(Posts[p].ChannelId), cfg.team)

\* The receipt SaveReadReceiptForPost builds (step 5); CreateAt is not set.
MarkReadReceipt(u, p, readAt, dev) ==
    Receipt(p, u, Posts[p].ChannelId, readAt, 0, dev, DetectDeviceType(dev))

\* The error SaveReadReceiptForPost returns, by the first check that fails.
MarkReadError(u, p, readAt, dev, fault) ==
    IF ~FeatureEnabled THEN ErrDisabled
    ELSE IF ~PostExists(p) THEN ErrNotFound
    ELSE IF ~PostChannelAllowed(p) THEN ErrChannelType
    ELSE IF ReceiptModeOf(u) = ReadReceiptModeDisabled THEN ErrUserDisabled
    ELSE IF IsValid(MarkReadReceipt(u, p, readAt, dev)) # ErrNone
         THEN IsValid(MarkReadReceipt(u, p, readAt, dev))
    ELSE IF fault = "store" THEN ErrSave
    ELSE ErrNone

\* Variant of the handler that publishes the event and starts the summary
\* update as soon as the receipt is built, before it is validated and saved.
MarkReadPublishFirst(u, p, readAt, dev, fault) ==
    /\ now < MaxTime
    /\ LET err   == MarkReadError(u, p, readAt, dev, fault)
           built == err \notin {ErrDisabled, ErrNotFound, ErrChannelType, ErrUserDisabled}
           echo  == [Ret("markRead", err) EXCEPT
                        !.user = u, !.posts = <<p>>, !.readAt = readAt,
                        !.dev = dev, !.fault = fault]
       IN  IF built
           THEN LET saved == PreSave(MarkReadReceipt(u, p, readAt, dev), now)
                IN  /\ receipts' = IF err = ErrNone
                                   THEN StoreSaveReadReceipt(receipts,
                                          MarkReadReceipt(u, p, readAt, dev), now, fault)
                                   ELSE receipts
                    /\ refreshQ' = Append(refreshQ, RefreshTask(p))
                    /\ ret' = [echo EXCEPT
                                  !.receipts = IF err = ErrNone THEN <<saved>> ELSE <<>>,
                                  !.events = PublishReadReceiptEvent(saved)]
           ELSE /\ ret' = echo
                /\ UNCHANGED <<receipts, refreshQ>>
    /\ now' = now + 1
    /\ UNCHANGED <<cfg, prefs, delQ, summaries, audit, bf>>

MarkRead(u, p, readAt, dev, fault) ==
    /\ now < MaxTime
    /\ LET err == MarkReadError(u, p, readAt, dev, fault)
       IN  IF err = ErrNone
           THEN LET saved == PreSave(MarkReadReceipt(u, p, readAt, dev), now)
                IN  /\ receipts' = StoreSaveReadReceipt(receipts,
                                       MarkReadReceipt(u, p, readAt, dev), now, fault)
                    /\ refreshQ' = Append(refreshQ, RefreshTask(p))
                    /\ ret' = [Ret("markRead", err) EXCEPT
                                  !.user = u, !.posts = <<p>>, !.readAt = readAt,
                                  !.dev = dev, !.fault = fault,
                                  !.receipts = <<saved>>,
                                  !.events = PublishReadReceiptEvent(saved)]
           ELSE /\ ret' = [Ret("markRead", err) EXCEPT
                              !.user = u, !.posts = <<p>>, !.readAt = readAt,
                              !.dev = dev, !.fault = fault]
                /\ UNCHANGED <<receipts, refreshQ>>
    /\ now' = now + 1
    /\ UNCHANGED <<cfg, prefs, delQ, summaries, audit, bf>>

----------------------------------------------------------------------------
(* app: SaveReadReceiptBatch *)

\* GetPostsByIds: the requested posts that exist, each once.
RECURSIVE GetPostsByIds(_)
GetPostsByIds(ids) ==
    IF ids = <<>> THEN <<>>
    ELSE LET rest == GetPostsByIds(Tail(ids))
         IN  IF PostExists(Head(ids))
                /\ \A i \in 1..Len(rest) : rest[i] # Head(ids)
             THEN <<Head(ids)>> \o rest
             ELSE rest

\* Variant of the loop's receipt: built for the post's author, with CreateAt.
BatchReceiptOfAuthor(post, u, batch) ==
    Receipt(post.Id, post.UserId, post.ChannelId, batch.ReadAt, batch.ReadAt,
            batch.DeviceId, DetectDeviceType(batch.DeviceId))

\* The receipt the loop builds for a post (step 4); CreateAt is not set.
BatchReceipt(post, u, batch) ==
    Receipt(post.Id, u, post.ChannelId, batch.ReadAt, 0, batch.DeviceId,
            DetectDeviceType(batch.DeviceId))

\* The loop over the resolved posts.  acc.cache: the channelIds map;
\* acc.validated: validatedReceipts; acc.lookups: the GetChannel calls made.
RECURSIVE BatchLoop(_, _, _, _)
BatchLoop(posts, u, batch, acc) ==
    IF posts = <<>> THEN acc
    ELSE LET post    == Posts[Head(posts)]
             cached  == post.ChannelId \in acc.cache
             looked  == IF cached THEN acc.lookups
                        ELSE Append(acc.lookups, post.ChannelId)
             receipt == BatchReceipt(post, u, batch)
         IN  IF ~cached /\ ~ChannelTypeAllowed(ChannelType(post.ChannelId), cfg.team)
             THEN BatchLoop(Tail(posts), u, batch, [acc EXCEPT !.lookups = looked])
             ELSE BatchLoop(Tail(posts), u, batch,
                    [cache     |-> acc.cache \cup {post.ChannelId},
                     validated |-> IF IsValid(receipt) = ErrNone
                                   THEN Append(acc.validated, receipt)
                                   ELSE acc.validated,
                     lookups   |-> looked])

\* The batch handed to the store (step 3): the request's post ids and channel.
BatchOf(u, req, t) ==
    [PostIds |-> req.PostIds, UserId |-> u, ChannelId |-> req.ChannelId,
     ReadAt |-> IF req.ReadAt = 0 THEN t ELSE req.ReadAt,
     DeviceId |-> req.DeviceId]

MarkReadBatch(u, req, fault) ==
    /\ now < MaxTime
    /\ LET batch  == BatchOf(u, req, now)
           loop   == BatchLoop(GetPostsByIds(batch.PostIds), u, batch,
                               [cache |-> {}, validated |-> <<>>, lookups |-> <<>>])
           stored == StoreSaveReadReceiptBatch(receipts, batch, now, cfg.driver, fault)
           echo(e) == [Ret("markReadBatch", e) EXCEPT
                          !.user = u, !.posts = req.PostIds, !.chan = req.ChannelId,
                          !.readAt = req.ReadAt, !.dev = req.DeviceId,
                          !.fault = fault]
       IN  IF ~FeatureEnabled
           THEN ret' = echo(ErrDisabled) /\ UNCHANGED receipts
           ELSE IF ReceiptModeOf(u) = ReadReceiptModeDisabled
           THEN ret' = echo(ErrUserDisabled) /\ UNCHANGED receipts
           ELSE IF stored.failed
           THEN /\ ret' = [echo(ErrBatchSave) EXCEPT !.lookups = loop.lookups]
                /\ receipts' = stored.table
           ELSE /\ receipts' = stored.table
                /\ ret' = [echo(ErrNone) EXCEPT
                              !.receipts = loop.validated,
                              !.lookups = loop.lookups,
                              !.events = PublishReadReceiptBatchEvent(loop.validated)]
    /\ now' = now + 1
    /\ UNCHANGED <<cfg, prefs, delQ, summaries, audit, refreshQ, bf>>

----------------------------------------------------------------------------
(* api4: markPostsAsReadBatch *)

ReadReceiptMaxBatchSize == 100

\* ReadReceiptBatchRequest.IsValid: the id of the first failed check, or
\* ErrNone.
BatchRequestIsValid(r) ==
    IF Len(r.PostIds) = 0 THEN ErrBatchPostIds
    ELSE IF Len(r.PostIds) > ReadReceiptMaxBatchSize THEN ErrBatchSize
    ELSE IF \E i \in 1..Len(r.PostIds) : ~IsValidId(r.PostIds[i]) THEN ErrBatchPostId
    ELSE IF r.ChannelId # "" /\ ~IsValidId(r.ChannelId) THEN ErrBatchChannelId
    ELSE ErrNone

\* Variant of the handler that checks the permission for the first post of
\* the request only.
MarkPostsAsReadBatchFirstPost(u, req, permitted, fault) ==
    LET echo(e) == [Ret("markPostsAsReadBatch", e) EXCEPT
                       !.user = u, !.posts = req.PostIds, !.chan = req.ChannelId,
                       !.readAt = req.ReadAt, !.dev = req.DeviceId,
                       !.fault = fault]
    IN  IF BatchRequestIsValid(req) # ErrNone \/ req.PostIds[1] \notin permitted
        THEN /\ now < MaxTime
             /\ ret' = echo(IF BatchRequestIsValid(req) # ErrNone
                            THEN BatchRequestIsValid(req) ELSE ErrPermission)
             /\ now' = now + 1
             /\ UNCHANGED <<cfg, prefs, delQ, receipts, summaries, audit, refreshQ, bf>>
        ELSE MarkReadBatch(u, req, fault)

\* The handler of the batch endpoint for the session of user u.  permitted:
\* the posts for which SessionHasPermissionToChannelByPost answers true.  A
\* request that fails validation or names a post outside permitted is
\* answered with the error and the app is not called; otherwise the answer
\* is the one of SaveReadReceiptBatch: its error, or its receipts and their
\* count.
MarkPostsAsReadBatch(u, req, permitted, fault) ==
    LET echo(e) == [Ret("markPostsAsReadBatch", e) EXCEPT
                       !.user = u, !.posts = req.PostIds, !.chan = req.ChannelId,
                       !.readAt = req.ReadAt, !.dev = req.DeviceId,
                       !.fault = fault]
    IN  IF BatchRequestIsValid(req) # ErrNone
        THEN /\ now < MaxTime
             /\ ret' = echo(BatchRequestIsValid(req))
             /\ now' = now + 1
             /\ UNCHANGED <<cfg, prefs, delQ, receipts, summaries, audit, refreshQ, bf>>
        ELSE IF \E i \in 1..Len(req.PostIds) : req.PostIds[i] \notin permitted
        THEN /\ now < MaxTime
             /\ ret' = echo(ErrPermission)
             /\ now' = now + 1
             /\ UNCHANGED <<cfg, prefs, delQ, receipts, summaries, audit, refreshQ, bf>>
        ELSE MarkReadBatch(u, req, fault)

----------------------------------------------------------------------------
(* app: DeleteReadReceiptForPost *)

\* Variant of the privacy-deletion switch that is always on.
PrivacyDeletionAllowedAlways == TRUE

\* *a.Config().ServiceSettings.ReadReceiptsAllowPrivacyDeletion
PrivacyDeletionAllowed == cfg.privDel

\* Steps 1-3: the two checks and DeleteReadReceipt, a statement of its own.
\* fault = "store": the statement fails and the call returns its error.
\* After the statement the call has not returned yet: other requests and
\* goroutines are served before its audit entry is written.
DeleteReceipt(u, p, fault) ==
    /\ now < MaxTime
    /\ LET echo(e) == [Ret("deleteReceipt", e) EXCEPT
                          !.user = u, !.posts = <<p>>, !.fault = fault]
       IN  IF ~FeatureEnabled
           THEN ret' = echo(ErrDisabled) /\ UNCHANGED <<receipts, delQ>>
           ELSE IF ~PrivacyDeletionAllowed
           THEN ret' = echo(ErrPrivacyDeletion) /\ UNCHANGED <<receipts, delQ>>
           ELSE IF fault = "store"
           THEN ret' = echo(ErrDelete) /\ UNCHANGED <<receipts, delQ>>
           ELSE /\ Len(delQ) < MaxDeletes
                /\ receipts' = StoreDeleteReadReceipt(receipts, p, u)
                /\ delQ' = Append(delQ, [user |-> u, post |-> p])
                /\ UNCHANGED ret
    /\ now' = now + 1
    /\ UNCHANGED <<cfg, prefs, summaries, audit, refreshQ, bf>>

\* Step 4 of the i-th call that has deleted: the audit entry, stamped with
\* the time of this step, and the return.  fault = "audit": the insert
\* fails, which the handler ignores.
DeleteReceiptAudit(i, fault) ==
    /\ i \in 1..Len(delQ)
    /\ LET entry == [Id |-> Len(audit) + 1, UserId |-> delQ[i].user,
                     PostId |-> delQ[i].post,
                     Action |-> ReadReceiptActionPrivacyView,
                     Metadata |-> "delete_receipt", CreateAt |-> now]
       IN  /\ audit' = StoreSaveReadReceiptAuditLog(audit, entry, fault)
           /\ ret' = [Ret("deleteReceipt", ErrNone) EXCEPT
                         !.user = delQ[i].user, !.posts = <<delQ[i].post>>,
                         !.fault = fault]
    /\ delQ' = WithoutTask(delQ, i)
    /\ UNCHANGED <<cfg, prefs, receipts, summaries, refreshQ, now, bf>>

----------------------------------------------------------------------------
(* sqlstore: SaveGhostReadReceipt *)

ReadReceiptActionGhostRead == "ghost_read"

\* The store call on its own: it writes an audit entry and no receipt, and
\* returns the error of the insert.
SaveGhostReadReceipt(u, p, fault) ==
    /\ now < MaxTime
    /\ LET entry == [Id |-> Len(audit) + 1, UserId |-> u, PostId |-> p,
                     Action |-> ReadReceiptActionGhostRead,
                     Metadata |-> "ghost_read", CreateAt |-> now]
       IN  /\ audit' = StoreSaveReadReceiptAuditLog(audit, entry, fault)
           /\ ret' = [Ret("saveGhost", IF fault = "audit" THEN ErrSaveAudit ELSE ErrNone)
                         EXCEPT !.user = u, !.posts = <<p>>, !.fault = fault]
    /\ now' = now + 1
    /\ UNCHANGED <<cfg, prefs, delQ, receipts, summaries, refreshQ, bf>>

----------------------------------------------------------------------------
(* sqlstore: the bulk statements, which nothing in the app layer calls *)

\* A bulk statement of the store called on its own: the table after it is
\* after, or the table as it is and the error err when the statement fails.
BulkStatement(op, after, err, fault) ==
    /\ now < MaxTime
    /\ receipts' = IF fault = "store" THEN receipts ELSE after
    /\ ret' = [Ret(op, IF fault = "store" THEN err ELSE ErrNone) EXCEPT
                  !.fault = fault,
                  !.count = IF fault = "store" THEN 0
                            ELSE Cardinality(receipts \ after)]
    /\ now' = now + 1
    /\ UNCHANGED <<cfg, prefs, delQ, summaries, audit, refreshQ, bf>>

DeleteReadReceiptsForUser(u, fault) ==
    BulkStatement("deleteForUser", StoreDeleteReadReceiptsForUser(receipts, u),
                  ErrDeleteForUser, fault)

DeleteReadReceiptsForPost(p, fault) ==
    BulkStatement("deleteForPost", StoreDeleteReadReceiptsForPost(receipts, p),
                  ErrDeleteForPost, fault)

DeleteReadReceiptsForChannel(c, fault) ==
    BulkStatement("deleteForChannel", StoreDeleteReadReceiptsForChannel(receipts, c),
                  ErrDeleteForChannel, fault)

\* It returns the number of rows deleted.
CleanupOldReadReceipts(daysOld, fault) ==
    BulkStatement("cleanup", StoreCleanupOldReadReceipts(receipts, daysOld, now),
                  ErrCleanup, fault)

AnonymizeReadReceiptsForUser(u, fault) ==
    BulkStatement("anonymize", StoreAnonymizeReadReceiptsForUser(receipts, u),
                  ErrAnonymize, fault)

----------------------------------------------------------------------------
(* app: BackfillReadReceiptsForChannel *)

BfIdle == [phase |-> "idle", ch |-> "", pairs |-> <<>>, queue |-> <<>>]

\* The (member, post) pairs of step 5 that reach the existence lookup: the
\* member has a view time, the post is not newer than it and is not the
\* member's own.  Members in the outer loop, posts in the inner one.
RECURSIVE BackfillPairs(_, _, _)
BackfillPairs(members, posts, rest) ==
    IF members = <<>> THEN <<>>
    ELSE IF rest = <<>> THEN BackfillPairs(Tail(members), posts, posts)
    ELSE LET m    == Head(members)
             post == Posts[Head(rest)]
             more == BackfillPairs(members, posts, Tail(rest))
         IN  IF m.LastViewedAt = 0 THEN BackfillPairs(Tail(members), posts, posts)
             ELSE IF post.CreateAt > m.LastViewedAt THEN more
             ELSE IF post.UserId = m.UserId THEN more
             ELSE <<[member |-> m, post |-> post]>> \o more

\* Variant of the synthesized receipt that is read at the post's time.
BackfillReceiptAtPostTime(pair, c) ==
    Receipt(pair.post.Id, pair.member.UserId, c, pair.post.CreateAt, 0,
            "backfill", "backfill")

\* The receipt synthesized for a pair.
BackfillReceipt(pair, c) ==
    Receipt(pair.post.Id, pair.member.UserId, c, pair.member.LastViewedAt, 0,
            "backfill", "backfill")

\* Steps 1-4: the checks and the member and post lists.
BackfillStart(c) ==
    /\ bf.phase = "idle"
    /\ now < MaxTime
    /\ LET echo(e) == [Ret("backfillChannel", e) EXCEPT !.chan = c]
           pairs == BackfillPairs(ChannelMembers(c), PostsForChannel(c),
                                  PostsForChannel(c))
       IN  IF ~FeatureEnabled
           THEN ret' = echo(ErrDisabled) /\ UNCHANGED bf
           ELSE IF c \notin ChannelIds
           THEN ret' = echo(ErrNotFound) /\ UNCHANGED bf
           ELSE IF ~ChannelTypeAllowed(ChannelType(c), cfg.team)
           THEN ret' = echo(ErrChannelType) /\ UNCHANGED bf
           ELSE IF pairs = <<>>
           THEN ret' = echo(ErrNone) /\ UNCHANGED bf
           ELSE /\ bf' = [phase |-> "scan", ch |-> c, pairs |-> pairs, queue |-> <<>>]
                /\ UNCHANGED ret
    /\ now' = now + 1
    /\ UNCHANGED <<cfg, prefs, delQ, receipts, summaries, audit, refreshQ>>

\* Step 5, one pair: GetReadReceipt(post, member); a failed lookup counts as
\* "no receipt".
BackfillScan(fault) ==
    /\ bf.phase = "scan"
    /\ LET pair   == Head(bf.pairs)
           exists == fault = "none"
                     /\ RowsOf(receipts, pair.post.Id, pair.member.UserId) # {}
           queue  == IF exists THEN bf.queue
                     ELSE Append(bf.queue, BackfillReceipt(pair, bf.ch))
       IN  IF Tail(bf.pairs) # <<>>
           THEN /\ bf' = [bf EXCEPT !.pairs = Tail(bf.pairs), !.queue = queue]
                /\ UNCHANGED ret
           ELSE IF queue # <<>>
           THEN /\ bf' = [bf EXCEPT !.phase = "write", !.pairs = <<>>, !.queue = queue]
                /\ UNCHANGED ret
           ELSE /\ bf' = BfIdle
                /\ ret' = [Ret("backfillChannel", ErrNone) EXCEPT !.chan = bf.ch]
    /\ UNCHANGED <<cfg, prefs, delQ, receipts, summaries, audit, refreshQ, now>>

\* Variant of step 6 that gives up at the first failed write and returns its
\* error.
BackfillWriteAbort(fault) ==
    /\ bf.phase = "write"
    /\ receipts' = StoreSaveReadReceipt(receipts, Head(bf.queue), now, fault)
    /\ IF fault = "none" /\ Tail(bf.queue) # <<>>
       THEN /\ bf' = [bf EXCEPT !.queue = Tail(bf.queue)]
            /\ UNCHANGED ret
       ELSE /\ bf' = BfIdle
            /\ ret' = [Ret("backfillChannel",
                           IF fault = "none" THEN ErrNone ELSE ErrSave)
                          EXCEPT !.chan = bf.ch]
    /\ UNCHANGED <<cfg, prefs, delQ, summaries, audit, refreshQ, now>>

\* Step 6, one receipt: SaveReadReceipt; a failed write is logged and skipped.
BackfillWrite(fault) ==
    /\ bf.phase = "write"
    /\ receipts' = StoreSaveReadReceipt(receipts, Head(bf.queue), now, fault)
    /\ IF Tail(bf.queue) # <<>>
       THEN /\ bf' = [bf EXCEPT !.queue = Tail(bf.queue)]
            /\ UNCHANGED ret
       ELSE /\ bf' = BfIdle
            /\ ret' = [Ret("backfillChannel", ErrNone) EXCEPT !.chan = bf.ch]
    /\ UNCHANGED <<cfg, prefs, delQ, summaries, audit, refreshQ, now>>

----------------------------------------------------------------------------
(* app: the queries *)

\* SqlPostReadReceiptStore.GetReadReceiptInfo for an existing post, given the
\* order rs in which the post's receipts were selected.
StoreGetReadReceiptInfo(p, rs) ==
    LET total == Len(ChannelMembers(Posts[p].ChannelId))
        count == Len(rs)
    IN  [PostId |-> p, ChannelId |-> Posts[p].ChannelId, ReadReceipts |-> rs,
         TotalUsers |-> total, ReadCount |-> count,
         LastRead |-> IF count > 0 THEN rs[1].ReadAt ELSE 0,
         FirstRead |-> IF count > 0 THEN rs[count].ReadAt ELSE 0,
         PartiallyRead |-> count > 0 /\ count < total,
         AllRead |-> count >= total]

\* Variant of the privacy filter that leaves ReadCount as the store set it.
FilterInfoKeepCount(info, viewer) ==
    IF ShowOthersOf(viewer) = "none"
    THEN [info EXCEPT !.ReadReceipts =
                         SelectSeq(info.ReadReceipts, LAMBDA r : r.UserId = viewer)]
    ELSE info

\* Variant of the privacy filter that also takes LastRead and FirstRead from
\* the filtered list.
FilterInfoOwnTimes(info, viewer) ==
    IF ShowOthersOf(viewer) = "none"
    THEN LET own == SelectSeq(info.ReadReceipts, LAMBDA r : r.UserId = viewer)
         IN  [info EXCEPT !.ReadReceipts = own, !.ReadCount = Len(own),
                          !.LastRead = IF own = <<>> THEN 0 ELSE own[1].ReadAt,
                          !.FirstRead = IF own = <<>> THEN 0 ELSE own[Len(own)].ReadAt]
    ELSE info

\* Step 4 of GetReadReceiptInfoForPost: the privacy filter.
FilterInfo(info, viewer) ==
    IF ShowOthersOf(viewer) = "none"
    THEN LET own == SelectSeq(info.ReadReceipts, LAMBDA r : r.UserId = viewer)
         IN  [info EXCEPT !.ReadReceipts = own, !.ReadCount = Len(own)]
    ELSE info

GetInfo(p, viewer, fault) ==
    /\ LET echo(e) == [Ret("getInfo", e) EXCEPT
                          !.user = viewer, !.posts = <<p>>, !.fault = fault]
       IN  IF ~FeatureEnabled THEN ret' = echo(ErrDisabled)
           ELSE IF fault = "store" \/ ~PostExists(p) THEN ret' = echo(ErrGetInfo)
           ELSE \E rs \in OrderedByReadAtDesc({x \in receipts : x.PostId = p}) :
                  ret' = [echo(ErrNone) EXCEPT
                             !.info = FilterInfo(StoreGetReadReceiptInfo(p, rs), viewer)]
    /\ UNCHANGED <<cfg, prefs, delQ, receipts, summaries, audit, refreshQ, now, bf>>

\* SqlPostReadReceiptStore.GetReadReceiptsForUser: the rows selected.
UserReceipts(T, u, c) ==
    {x \in T : x.UserId = u /\ (c # "" => x.ChannelId = c)}

GetUserHistory(u, c, since, limit, fault) ==
    /\ LET echo(e) == [Ret("getUserHistory", e) EXCEPT
                          !.user = u, !.chan = c, !.since = since,
                          !.limit = limit, !.fault = fault]
       IN  IF ~FeatureEnabled THEN ret' = echo(ErrDisabled)
           ELSE IF fault = "store" THEN ret' = echo(ErrGetUserReceipts)
           ELSE \E rs \in OrderedByReadAtDesc(UserReceipts(receipts, u, c)) :
                  ret' = [echo(ErrNone) EXCEPT !.receipts = Limit(rs, limit)]
    /\ UNCHANGED <<cfg, prefs, delQ, receipts, summaries, audit, refreshQ, now, bf>>

\* All orders in which GetReadReceiptSummariesForChannel may return rows S.
OrderedByLastUpdatedDesc(S) ==
    { s \in [1..Cardinality(S) -> S] :
        /\ \A i, j \in 1..Cardinality(S) : i # j => s[i] # s[j]
        /\ \A i, j \in 1..Cardinality(S) : i < j => s[i].LastUpdated >= s[j].LastUpdated }

ChannelSummaries(T, c, since) ==
    {x \in T : x.ChannelId = c /\ (since > 0 => x.LastUpdated >= since)}

GetChannelSummaries(c, u, since, fault) ==
    /\ LET echo(e) == [Ret("getChannelSummaries", e) EXCEPT
                          !.user = u, !.chan = c, !.since = since, !.fault = fault]
       IN  IF ~FeatureEnabled THEN ret' = echo(ErrDisabled)
           ELSE IF c \notin ChannelIds THEN ret' = echo(ErrNotFound)
           ELSE IF ~ChannelTypeAllowed(ChannelType(c), cfg.team)
           THEN ret' = echo(ErrChannelType)
           ELSE IF fault = "store" THEN ret' = echo(ErrGetSummaries)
           ELSE \E ss \in OrderedByLastUpdatedDesc(ChannelSummaries(summaries, c, since)) :
                  ret' = [echo(ErrNone) EXCEPT !.sums = ss]
    /\ UNCHANGED <<cfg, prefs, delQ, receipts, summaries, audit, refreshQ, now, bf>>

----------------------------------------------------------------------------
(* The system *)

Init ==
    /\ \E d \in Deployments : cfg = d.cfg /\ prefs = d.prefs
    /\ receipts = {}
    /\ summaries = {}
    /\ audit = <<>>
    /\ refreshQ = <<>>
    /\ delQ = <<>>
    /\ now = 1
    /\ bf = BfIdle
    /\ ret = Ret("none", ErrNone)

\* The write path: every request that can change a table, on all inputs.
Next ==
    \/ \E u \in Users, p \in MarkPostIds, t \in ReadAts, d \in DeviceIds, f \in Faults :
          MarkRead(u, p, t, d, f)
    \/ \E u \in Users, req \in BatchRequests, f \in Faults : MarkReadBatch(u, req, f)
    \/ \E u \in Users, p \in MarkPostIds, f \in Faults : DeleteReceipt(u, p, f)
    \/ \E i \in 1..MaxDeletes, f \in {"none", "audit"} : DeleteReceiptAudit(i, f)
    \/ \E u \in Users, f \in {"none", "audit"} : SaveGhostReadReceipt(u, "p1", f)
    \/ \E c \in ChannelInputs : BackfillStart(c)
    \/ \E f \in Faults : BackfillScan(f)
    \/ \E f \in Faults : BackfillWrite(f)

Spec == Init /\ [][Next]_vars

\* All seven operations: the writers on the requests that reach each of their
\* outcomes with a healthy store, and the three queries.
NextAll ==
    \/ \E u \in Users, p \in MarkPostIds : MarkRead(u, p, 1, "", "none")
    \/ \E u \in Users, req \in BatchRequests : MarkReadBatch(u, req, "none")
    \/ DeleteReceipt("u1", "p1", "none")
    \/ \E i \in 1..MaxDeletes : DeleteReceiptAudit(i, "none")
    \/ \E c \in ChannelInputs : BackfillStart(c)
    \/ BackfillScan("none")
    \/ BackfillWrite("none")
    \/ \E q \in InfoQueries : GetInfo(q.post, q.user, q.fault)
    \/ \E q \in HistoryQueries :
          GetUserHistory(q.user, q.chan, q.since, q.limit, q.fault)
    \/ \E q \in SummaryQueries :
          GetChannelSummaries(q.chan, q.user, q.since, q.fault)

SpecAll == Init /\ [][NextAll]_vars

\* The summary updates on their own and next to the writers: the store's
\* summary upsert, the detached update and its three steps, which other
\* tasks and requests may interleave with, and the three receipt writers on
\* a healthy store.
NextRefresh ==
    \/ \E x \in SummaryInputs, f \in Faults : UpdateReadReceiptSummary(x, f)
    \/ \E p \in RefreshPosts : UpdateReadReceiptSummaryAsync(Posts[p].ChannelId, p)
    \/ \E i \in 1..MaxTasks, f \in Faults : RefreshGet(i, f)
    \/ \E i \in 1..MaxTasks : RefreshStamp(i)
    \/ \E i \in 1..MaxTasks, f \in Faults : RefreshWrite(i, f)
    \/ \E u \in Users : MarkRead(u, "p1", 1, "", "none")
    \/ \E u \in Users, req \in BatchRequests : MarkReadBatch(u, req, "none")
    \/ BackfillStart("cD")
    \/ BackfillScan("none")
    \/ BackfillWrite("none")

SpecRefresh == Init /\ [][NextRefresh]_vars

\* The goroutines of the summary updates and of the backfill are scheduled.
RefreshFairness ==
    /\ \A i \in 1..MaxTasks :
          WF_vars(RefreshStamp(i) \/ \E f \in Faults : RefreshGet(i, f) \/ RefreshWrite(i, f))
    /\ WF_vars(BackfillScan("none") \/ BackfillWrite("none"))

SpecRefreshFair == SpecRefresh /\ RefreshFairness

\* The backfill on a healthy store, next to the batches and the deletions
\* that are served before, while and after it runs.
NextBackfill ==
    \/ \E u \in Users, req \in BatchRequests : MarkReadBatch(u, req, "none")
    \/ \E u \in Users : DeleteReceipt(u, "p1", "none")
    \/ \E i \in 1..MaxDeletes : DeleteReceiptAudit(i, "none")
    \/ \E c \in ChannelInputs : BackfillStart(c)
    \/ BackfillScan("none")
    \/ BackfillWrite("none")

SpecBackfill == Init /\ [][NextBackfill]_vars

\* Batches of several posts of one channel: two posts of the open channel,
\* alone, around a post of the direct channel and with one named twice, and
\* two posts of the direct channel.
LoopRequests ==
    { [PostIds |-> ids, ChannelId |-> "", ReadAt |-> 1, DeviceId |-> ""] :
        ids \in { <<"p4", "p6">>, <<"p4", "p1", "p6">>, <<"p6", "p4", "p4">>,
                  <<"p1", "p2">>, <<"p2", "p3", "p1">> } }

\* The batch handler on its own, on the batches of LoopRequests.
NextLoop == \E u \in Users, req \in LoopRequests : MarkReadBatch(u, req, "none")

SpecLoop == Init /\ [][NextLoop]_vars

\* The ages in days CleanupOldReadReceipts is called with: rows older than
\* now, rows older than now minus a day, and a negative age, which the int
\* parameter admits and which puts the cutoff after now.
CleanupAges == {0, 1, -1}

\* The bulk statements of the store next to the batches that fill the table.
NextStore ==
    \/ \E u \in Users, req \in BatchRequests : MarkReadBatch(u, req, "none")
    \/ \E u \in Users, f \in Faults : DeleteReadReceiptsForUser(u, f)
    \/ \E p \in MarkPostIds, f \in Faults : DeleteReadReceiptsForPost(p, f)
    \/ \E c \in ChannelInputs \cup {""}, f \in Faults :
          DeleteReadReceiptsForChannel(c, f)
    \/ \E d \in CleanupAges, f \in Faults : CleanupOldReadReceipts(d, f)
    \/ \E u \in Users, f \in Faults : AnonymizeReadReceiptsForUser(u, f)

SpecStore == Init /\ [][NextStore]_vars

\* The requests sent to the batch endpoint: no post id, one more post id than
\* ReadReceiptMaxBatchSize, an empty post id, posts of the direct channel, of
\* both channels and of the open channel, and one that does not resolve.
ApiRequests ==
    { [PostIds |-> ids, ChannelId |-> "cD", ReadAt |-> 1, DeviceId |-> ""] :
        ids \in { <<>>,
                  [i \in 1..(ReadReceiptMaxBatchSize + 1) |-> "p1"],
                  <<"p1", "">>,
                  <<"p1", "p2">>, <<"p3", "p4">>, <<"p4", "p6">>,
                  <<"p1", "px">> } }

\* What the session may read: every post, the posts of the direct channel,
\* those of the open channel, one post, none.
SessionPermissions ==
    { {"p1", "p2", "p3", "p4", "p5", "p6"}, {"p1", "p2", "p3"}, {"p4", "p6"},
      {"p1"}, {} }

\* The batch endpoint on its own.
NextApi ==
    \E u \in Users, req \in ApiRequests, permitted \in SessionPermissions,
       f \in {"none", "store"} :
        MarkPostsAsReadBatch(u, req, permitted, f)

SpecApi == Init /\ [][NextApi]_vars

\* The receipts the batch publisher is applied to: one user's receipts for
\* two posts of one channel and posts of two other channels.
PublishReceipts ==
    { Receipt(p, "u1", Posts[p].ChannelId, 1, 1, "", DeviceTypeWeb) :
        p \in {"p1", "p2", "p4", "p5"} }

PublishLists == UNION { [1..n -> PublishReceipts] : n \in 0..MaxPublish }

\* App.PublishReadReceiptBatchEvent applied to the list rs.
PublishBatch(rs) ==
    /\ ret' = [Ret("publishBatch", ErrNone) EXCEPT
                  !.receipts = rs, !.events = PublishReadReceiptBatchEvent(rs)]
    /\ UNCHANGED <<cfg, prefs, delQ, receipts, summaries, audit, refreshQ, now, bf>>

\* The batch publisher on its own, on every list of PublishLists.
NextPublish == \E rs \in PublishLists : PublishBatch(rs)

SpecPublish == Init /\ [][NextPublish]_vars

----------------------------------------------------------------------------
(* Properties *)

\* The keys (PostId, UserId) of a set of rows.
KeysOf(S) == {<<x.PostId, x.UserId>> : x \in S}

\* The effective receipt mode of user u is "disabled": the receipt_mode
\* preference if set, otherwise the configured default.
OptedOut(u) ==
    (IF prefs[u].mode # "" THEN prefs[u].mode ELSE cfg.deflt) = "disabled"

\* A channel type is eligible: direct or group, or open or private with the
\* team-channel flag on.
Eligible(type) ==
    \/ type \in {"D", "G"}
    \/ type \in {"O", "P"} /\ cfg.team

\* markRead(u, p, ...) passes the checks before validation: the feature is on,
\* the post resolves, its channel is eligible and the user has not opted out.
MarkReadAdmitted(u, p) ==
    /\ cfg.enable
    /\ PostExists(p)
    /\ Eligible(ChannelType(Posts[p].ChannelId))
    /\ ~OptedOut(u)

\* The step is a markRead call; its inputs are those the result echoes.
MarkReadStep ==
    /\ ret'.op = "markRead"
    /\ MarkRead(ret'.user, ret'.posts[1], ret'.readAt, ret'.dev, ret'.fault)

\* The step is a markReadBatch call.
MarkReadBatchStep ==
    /\ ret'.op = "markReadBatch"
    /\ MarkReadBatch(ret'.user,
                     [PostIds |-> ret'.posts, ChannelId |-> ret'.chan,
                      ReadAt |-> ret'.readAt, DeviceId |-> ret'.dev],
                     ret'.fault)

\* The step is a backfillChannel call that returns at once.
BackfillRejectedStep ==
    /\ ret'.op = "backfillChannel"
    /\ BackfillStart(ret'.chan)

\* The step is a getChannelSummaries call.
GetChannelSummariesStep ==
    /\ ret'.op = "getChannelSummaries"
    /\ GetChannelSummaries(ret'.chan, ret'.user, ret'.since, ret'.fault)

\* The step is a getInfo call.
GetInfoStep ==
    /\ ret'.op = "getInfo"
    /\ GetInfo(ret'.posts[1], ret'.user, ret'.fault)

\* The step is the delete statement of a deleteReceipt(u, p) call.
DeleteStatementStep(u, p) ==
    /\ delQ' # delQ
    /\ DeleteReceipt(u, p, "none")

\* The step is a deleteReceipt call that is refused or whose statement fails.
DeleteRejectedStep ==
    /\ ret'.op = "deleteReceipt"
    /\ delQ' = delQ
    /\ DeleteReceipt(ret'.user, ret'.posts[1], ret'.fault)

\* The step is the audit insert and the return of a deleteReceipt call.
DeleteReturnStep ==
    /\ ret'.op = "deleteReceipt"
    /\ \E i \in 1..Len(delQ) : DeleteReceiptAudit(i, ret'.fault)

\* The step is the one in which a deleteReceipt call returns.
DeleteReceiptStep == DeleteRejectedStep \/ DeleteReturnStep

\* The viewer's show_others_receipts preference is "none".
ShowNone(u) == prefs[u].show = "none"

\* C1: after any sequence and interleaving of markRead, markReadBatch,
\* backfillChannel and deleteReceipt, the receipt table holds at most one row
\* per (PostId, UserId): two rows with the same key are the same row.
C1_OneRowPerKey ==
    \A x, y \in receipts :
        (x.PostId = y.PostId /\ x.UserId = y.UserId) => x = y

\* C1 witness: a successful batch named a key that holds a backfilled row (the
\* row kept its device id "backfill"), so the key was written twice, and the
\* key still has one row.
C1_KeyWrittenTwice ==
    /\ ret.op = "markReadBatch"
    /\ ret.err = ErrNone
    /\ \E x \in receipts :
          /\ x.DeviceId = "backfill"
          /\ x.UserId = ret.user
          /\ \E i \in 1..Len(ret.posts) : ret.posts[i] = x.PostId
          /\ Cardinality(RowsOf(receipts, x.PostId, x.UserId)) = 1

\* C2: with the feature on, a post in a direct-message channel, a user who has
\* not opted out, readAt = t > 0 and a healthy store, markRead(u, p, t, d)
\* succeeds, returns one receipt with that post, user and readAt, and the
\* table then holds a row for (p, u) with readAt = t.
C2_MarkReadSucceeds ==
    [][LET u == ret'.user
           p == ret'.posts[1]
           t == ret'.readAt
       IN  ( /\ MarkReadStep
             /\ ret'.fault = "none"
             /\ MarkReadAdmitted(u, p)
             /\ ChannelType(Posts[p].ChannelId) = "D"
             /\ t > 0 )
           => /\ ret'.err = ErrNone
              /\ Len(ret'.receipts) = 1
              /\ ret'.receipts[1].PostId = p
              /\ ret'.receipts[1].UserId = u
              /\ ret'.receipts[1].ReadAt = t
              /\ \E x \in RowsOf(receipts', p, u) : x.ReadAt = t]_vars

\* C3: a markRead(u, p, t2) that follows a markRead(u, p, t1) with
\* 0 < t1 < t2, both admitted and with a healthy store, leaves exactly one
\* row for (p, u), and its readAt is t2.
C3_LaterMarkReadWins ==
    [][LET u  == ret'.user
           p  == ret'.posts[1]
           t2 == ret'.readAt
       IN  ( /\ MarkReadStep
             /\ ret'.fault = "none"
             /\ MarkReadAdmitted(u, p)
             /\ ret.op = "markRead" /\ ret.user = u /\ ret.posts = <<p>>
             /\ ret.fault = "none"
             /\ 0 < ret.readAt /\ ret.readAt < t2 )
           => /\ Cardinality(RowsOf(receipts', p, u)) = 1
              /\ \A x \in RowsOf(receipts', p, u) : x.ReadAt = t2]_vars

\* C4: two markRead calls for the same (p, u), in whichever order their store
\* statements are applied, leave exactly one row for the key, whose readAt,
\* device id and device type are all those of one of the two calls.
C4_RacingMarkReadsOneCall ==
    [][LET u == ret'.user
           p == ret'.posts[1]
       IN  ( /\ MarkReadStep
             /\ ret'.fault = "none"
             /\ MarkReadAdmitted(u, p)
             /\ ret.op = "markRead" /\ ret.user = u /\ ret.posts = <<p>>
             /\ ret.fault = "none"
             /\ ret.readAt > 0 /\ ret'.readAt > 0 )
           => \E x \in receipts' :
                 /\ RowsOf(receipts', p, u) = {x}
                 /\ \/ <<x.ReadAt, x.DeviceId, x.DeviceType>>
                         = <<ret'.readAt, ret'.dev, DetectDeviceType(ret'.dev)>>
                    \/ <<x.ReadAt, x.DeviceId, x.DeviceType>>
                         = <<ret.readAt, ret.dev, DetectDeviceType(ret.dev)>>]_vars

\* C5: every row of the receipt table has ReadAt > 0, CreateAt > 0 and a
\* DeviceType that is empty or one of desktop, mobile, web, unknown.
C5_RowsWellFormed ==
    \A x \in receipts :
        /\ x.ReadAt > 0
        /\ x.CreateAt > 0
        /\ x.DeviceType \in {"", "desktop", "mobile", "web", "unknown"}

\* C6: with the feature flag off, every operation returns FeatureDisabled and
\* publishes no event, and no step changes the receipt, summary or audit
\* tables.
C6_FeatureOffRejectsAll ==
    /\ [](~cfg.enable /\ ret.op # "none"
            => /\ ErrorClass(ret.err) = "FeatureDisabled"
               /\ ret.events = {}
               /\ ret.receipts = <<>>
               /\ ret.sums = <<>>
               /\ ret.info = NoInfo)
    /\ [][~cfg.enable => UNCHANGED <<receipts, summaries, audit>>]_vars

\* C6 witness: a batch naming posts was rejected because the flag is off.
C6_BatchRejectedFeatureOff ==
    /\ ~cfg.enable
    /\ ret.op = "markReadBatch"
    /\ Len(ret.posts) > 0
    /\ ret.err = ErrDisabled

\* With the feature on, post p exists and its channel is not eligible.
IneligiblePost(p) ==
    /\ cfg.enable
    /\ PostExists(p)
    /\ ~Eligible(ChannelType(Posts[p].ChannelId))

\* With the feature on, channel c exists and is not eligible.
IneligibleChannel(c) ==
    /\ cfg.enable
    /\ c \in ChannelIds
    /\ ~Eligible(ChannelType(c))

\* C7: the channel-type rule admits exactly the eligible types, and markRead,
\* backfillChannel and getChannelSummaries on an ineligible channel return the
\* channel-type PolicyViolation, publish nothing, and their step leaves the
\* tables unchanged (and starts no backfill).
C7_IneligibleChannelRejected ==
    /\ [](\A c \in ChannelIds :
            ChannelTypeAllowed(ChannelType(c), cfg.team) <=> Eligible(ChannelType(c)))
    /\ []( ( \/ ret.op = "markRead" /\ IneligiblePost(ret.posts[1])
             \/ /\ ret.op \in {"backfillChannel", "getChannelSummaries"}
                /\ IneligibleChannel(ret.chan) )
           => /\ ret.err = ErrChannelType
              /\ ErrorClass(ret.err) = "PolicyViolation"
              /\ ret.events = {}
              /\ ret.receipts = <<>>
              /\ ret.sums = <<>> )
    /\ [][( \/ MarkReadStep /\ IneligiblePost(ret'.posts[1])
            \/ BackfillRejectedStep /\ IneligibleChannel(ret'.chan)
            \/ GetChannelSummariesStep /\ IneligibleChannel(ret'.chan) )
          => /\ UNCHANGED <<receipts, summaries, audit, bf>>
             /\ ret'.err = ErrChannelType]_vars

\* C7 witness: markRead on a post of an open channel was rejected while team
\* channels are off.
C7_OpenChannelMarkReadRejected ==
    /\ cfg.enable
    /\ ~cfg.team
    /\ ret.op = "markRead"
    /\ ret.posts = <<"p4">>
    /\ ret.err = ErrChannelType

\* C8: with the feature on, markRead (on an existing post) and markReadBatch
\* for a user whose effective mode is disabled return PolicyViolation - the
\* opt-out error unless markRead's channel is ineligible - return no receipt
\* and publish nothing, and their step leaves the receipt table unchanged.
C8_OptedOutRejected ==
    /\ []( ( /\ cfg.enable
             /\ ret.op \in {"markRead", "markReadBatch"}
             /\ OptedOut(ret.user)
             /\ ret.op = "markRead" => PostExists(ret.posts[1]) )
           => /\ ErrorClass(ret.err) = "PolicyViolation"
              /\ ( \/ ret.op = "markReadBatch"
                   \/ Eligible(ChannelType(Posts[ret.posts[1]].ChannelId)) )
                 => ret.err = ErrUserDisabled
              /\ ret.receipts = <<>>
              /\ ret.events = {} )
    /\ [][((MarkReadStep \/ MarkReadBatchStep) /\ OptedOut(ret'.user))
            => UNCHANGED receipts]_vars

\* C8 witness: a batch naming posts, from a user whose preference is
\* "disabled" while the default is "enabled", was rejected as opted out.
C8_OptedOutBatchRejected ==
    /\ cfg.enable
    /\ cfg.deflt = "enabled"
    /\ ret.op = "markReadBatch"
    /\ prefs[ret.user].mode = "disabled"
    /\ Len(ret.posts) > 0
    /\ ret.err = ErrUserDisabled

\* C9: the list a markReadBatch returns is no longer than the request's post
\* ids, and every receipt in it is for a requested post and for the caller.
C9_BatchResultWithinRequest ==
    ret.op = "markReadBatch"
    => /\ Len(ret.receipts) <= Len(ret.posts)
       /\ \A i \in 1..Len(ret.receipts) :
             /\ \E j \in 1..Len(ret.posts) : ret.posts[j] = ret.receipts[i].PostId
             /\ ret.receipts[i].UserId = ret.user

\* C9 witness: a batch of three posts, of which two are another user's or in
\* an ineligible channel, succeeded.
C9_MixedBatchSucceeded ==
    /\ ret.op = "markReadBatch"
    /\ ret.err = ErrNone
    /\ ret.posts = <<"p1", "p4", "p2">>
    /\ ~cfg.team

\* C10: the keys a successful markReadBatch wrote to the receipt table are
\* exactly the keys of the receipts it returned.
C10_BatchWritesWhatItReturns ==
    [][(MarkReadBatchStep /\ ret'.err = ErrNone)
          => KeysOf(receipts' \ receipts)
               = {<<ret'.receipts[i].PostId, ret'.receipts[i].UserId>> :
                    i \in 1..Len(ret'.receipts)}]_vars

\* C11: a markReadBatch whose posts all resolve (each named once), with the
\* feature on, the user not opted out and a healthy store, returns no error
\* and exactly one receipt for each requested post in an eligible channel.
C11_BatchReturnsEligibleReceipts ==
    ( /\ ret.op = "markReadBatch"
      /\ cfg.enable
      /\ ~OptedOut(ret.user)
      /\ ret.fault = "none"
      /\ \A i \in 1..Len(ret.posts) : PostExists(ret.posts[i])
      /\ \A i, j \in 1..Len(ret.posts) : i # j => ret.posts[i] # ret.posts[j] )
    => /\ ret.err = ErrNone
       /\ {ret.receipts[i].PostId : i \in 1..Len(ret.receipts)}
            = {ret.posts[i] : i \in {j \in 1..Len(ret.posts) :
                   Eligible(ChannelType(Posts[ret.posts[j]].ChannelId))}}
       /\ \A i, j \in 1..Len(ret.receipts) :
             i # j => ret.receipts[i].PostId # ret.receipts[j].PostId

\* C12: a markReadBatch whose batch statement fails returns the batch-save
\* StorageError with no receipts and no event, and its step leaves the receipt
\* table as it was; an admitted batch naming posts fails whenever the
\* statement does.
C12_FailedBatchCommitsNothing ==
    /\ []( ( /\ ret.op = "markReadBatch"
             /\ cfg.enable
             /\ ~OptedOut(ret.user)
             /\ ret.fault = "store"
             /\ Len(ret.posts) > 0 )
           => ret.err = ErrBatchSave )
    /\ []( (ret.op = "markReadBatch" /\ ret.err = ErrBatchSave)
           => /\ ErrorClass(ret.err) = "StorageError"
              /\ ret.receipts = <<>>
              /\ ret.events = {} )
    /\ [][(MarkReadBatchStep /\ ret'.err = ErrBatchSave)
            => UNCHANGED receipts]_vars

\* C12 witness: a batch of several posts failed in the store while the table
\* already held rows.
C12_BatchFailedInStore ==
    /\ ret.op = "markReadBatch"
    /\ ret.fault = "store"
    /\ ret.err = ErrBatchSave
    /\ Len(ret.posts) > 1
    /\ receipts # {}

\* The sum of the counts of a set of events.
RECURSIVE SumCounts(_)
SumCounts(E) ==
    IF E = {} THEN 0
    ELSE LET e == CHOOSE x \in E : TRUE
         IN  e.count + SumCounts(E \ {e})

\* C13: the events published for a returned receipt list are exactly one per
\* distinct channel of the list, each with the receipts of that channel, in
\* the list's order, and their number as count; the counts sum to the length
\* of the list, and an empty list publishes nothing.
C13_OneBatchEventPerChannel ==
    (ret.op \in {"markReadBatch", "publishBatch"} /\ ret.err = ErrNone)
    => LET rs    == ret.receipts
           chans == {rs[i].ChannelId : i \in 1..Len(rs)}
           of(c) == SelectSeq(rs, LAMBDA r : r.ChannelId = c)
       IN  /\ {e.channel : e \in ret.events} = chans
           /\ Cardinality(ret.events) = Cardinality(chans)
           /\ \A e \in ret.events :
                 /\ e.type = "post_read_batch"
                 /\ e.receipts = of(e.channel)
                 /\ e.count = Len(e.receipts)
           /\ SumCounts(ret.events) = Len(rs)
           /\ rs = <<>> => ret.events = {}

\* C13 witness: three receipts of two channels were published as two events.
C13_TwoChannelsTwoEvents ==
    /\ ret.op = "publishBatch"
    /\ Len(ret.receipts) = 3
    /\ Cardinality({ret.receipts[i].ChannelId : i \in 1..3}) = 2
    /\ Cardinality(ret.events) = 2

\* C14: every info a getInfo returns has AllRead = (ReadCount >= TotalUsers)
\* and PartiallyRead = (0 < ReadCount < TotalUsers), on its own fields.
C14_InfoFlagsMatchCounts ==
    (ret.op = "getInfo" /\ ret.err = ErrNone)
    => /\ ret.info.AllRead <=> ret.info.ReadCount >= ret.info.TotalUsers
       /\ ret.info.PartiallyRead
            <=> (0 < ret.info.ReadCount /\ ret.info.ReadCount < ret.info.TotalUsers)

\* C15: in every info a getInfo returns, AllRead and PartiallyRead are not
\* both true, and both are false when ReadCount is 0.
C15_InfoFlagsExclusive ==
    (ret.op = "getInfo" /\ ret.err = ErrNone)
    => /\ ~(ret.info.AllRead /\ ret.info.PartiallyRead)
       /\ ret.info.ReadCount = 0
            => (~ret.info.AllRead /\ ~ret.info.PartiallyRead)

\* C16: the list a successful getInfo(p, viewer) returns is, for a viewer with
\* visibility "none", exactly the stored rows of p that are the viewer's own
\* (at most one); otherwise it is all stored rows of p, each once, latest
\* read first, as the store selected them.
C16_InfoFilterIsReference ==
    [][(GetInfoStep /\ ret'.err = ErrNone)
         => LET p    == ret'.posts[1]
                rs   == ret'.info.ReadReceipts
                rows == {x \in receipts : x.PostId = p}
                own  == {x \in rows : x.UserId = ret'.user}
            IN  IF ShowNone(ret'.user)
                THEN /\ {rs[i] : i \in 1..Len(rs)} = own
                     /\ Len(rs) = Cardinality(own)
                     /\ Len(rs) <= 1
                ELSE /\ {rs[i] : i \in 1..Len(rs)} = rows
                     /\ Len(rs) = Cardinality(rows)
                     /\ \A i, j \in 1..Len(rs) :
                           i < j => rs[i].ReadAt >= rs[j].ReadAt]_vars

\* C16 witness: a viewer with visibility "none" and no receipt of their own
\* got an empty list for a post that another user has read.
C16_OthersReceiptsHidden ==
    /\ ret.op = "getInfo"
    /\ ret.err = ErrNone
    /\ ShowNone(ret.user)
    /\ ret.info.ReadReceipts = <<>>
    /\ \E x \in receipts : x.PostId = ret.posts[1] /\ x.UserId # ret.user

\* C17: in every info a getInfo returns, ReadCount is the length of the
\* returned list; for a viewer with visibility "none" it is 1 if the viewer
\* has a row for the post and 0 otherwise.
C17_ReadCountIsListLength ==
    /\ []( (ret.op = "getInfo" /\ ret.err = ErrNone)
           => ret.info.ReadCount = Len(ret.info.ReadReceipts) )
    /\ [][(GetInfoStep /\ ret'.err = ErrNone /\ ShowNone(ret'.user))
            => ret'.info.ReadCount
                 = IF \E x \in receipts :
                         x.PostId = ret'.posts[1] /\ x.UserId = ret'.user
                   THEN 1 ELSE 0]_vars

\* C17 witness: a viewer with visibility "none" got ReadCount 1 for a post
\* that two users have read.
C17_CountOfOwnReceiptOnly ==
    /\ ret.op = "getInfo"
    /\ ret.err = ErrNone
    /\ ShowNone(ret.user)
    /\ ret.info.ReadCount = 1
    /\ Cardinality({x \in receipts : x.PostId = ret.posts[1]}) = 2

\* C18: with the feature on, privacy deletion allowed and the delete
\* statement succeeding, deleteReceipt(u, p) goes on to return no error
\* whether or not a row for (p, u) exists; after its statement there is no
\* row for (p, u) and every other row is as before, so a call that finds no
\* row (such as a second call) leaves the table unchanged; its return changes
\* no row.
C18_DeleteIsIdempotent ==
    /\ [][\A u \in Users, p \in MarkPostIds :
            ( /\ DeleteReceipt(u, p, "none")
              /\ cfg.enable
              /\ cfg.privDel )
            => /\ delQ' = Append(delQ, [user |-> u, post |-> p])
               /\ \A x \in receipts' : ~(x.PostId = p /\ x.UserId = u)
               /\ receipts' = {x \in receipts : ~(x.PostId = p /\ x.UserId = u)}
               /\ (\A x \in receipts : ~(x.PostId = p /\ x.UserId = u))
                    => receipts' = receipts]_vars
    /\ [][DeleteReturnStep => (ret'.err = ErrNone /\ receipts' = receipts)]_vars

\* C18 witness: a user's receipt for p1 was deleted: the rows the same batch
\* wrote for that user are still there, the one for p1 is not.
C18_ExistingReceiptDeleted ==
    /\ ret.op = "deleteReceipt"
    /\ ret.err = ErrNone
    /\ ret.posts = <<"p1">>
    /\ \A x \in receipts : ~(x.PostId = "p1" /\ x.UserId = ret.user)
    /\ \E x \in receipts :
          x.PostId = "p4" /\ x.UserId = ret.user /\ x.DeviceId = "mobile1"

\* C19: with the feature on and privacy deletion disabled, deleteReceipt
\* returns the privacy-deletion PolicyViolation and its step leaves the
\* receipt table and the audit log unchanged.
C19_DeleteDisabledRejected ==
    /\ []( (ret.op = "deleteReceipt" /\ cfg.enable /\ ~cfg.privDel)
           => /\ ret.err = ErrPrivacyDeletion
              /\ ErrorClass(ret.err) = "PolicyViolation" )
    /\ [][(DeleteReceiptStep /\ cfg.enable /\ ~cfg.privDel)
            => UNCHANGED <<receipts, audit>>]_vars

\* C19 witness: a delete was rejected while the user's receipt for the post
\* is stored.
C19_DeleteRejectedReceiptKept ==
    /\ ret.op = "deleteReceipt"
    /\ ~cfg.privDel
    /\ ret.err = ErrPrivacyDeletion
    /\ \E x \in receipts : x.PostId = ret.posts[1] /\ x.UserId = ret.user

\* C20: every deleteReceipt(u, p) that returns no error has appended exactly
\* one audit entry, for user u, post p and action privacy_view.
C20_SuccessfulDeleteIsAudited ==
    [][(DeleteReceiptStep /\ ret'.err = ErrNone)
         => /\ Len(audit') = Len(audit) + 1
            /\ SubSeq(audit', 1, Len(audit)) = audit
            /\ audit'[Len(audit')].UserId = ret'.user
            /\ audit'[Len(audit')].PostId = ret'.posts[1]
            /\ audit'[Len(audit')].Action = "privacy_view"]_vars

\* C21: the audit log is append-only: every step keeps every stored entry,
\* in its place and with identical fields; the log only grows.
C21_AuditLogAppendOnly ==
    [][ /\ Len(audit') >= Len(audit)
        /\ \A i \in 1..Len(audit) : audit'[i] = audit[i] ]_vars

\* C21 witness: the same user has two entries, a ghost read and a deletion.
C21_TwoEntriesOfOneUser ==
    \E i, j \in 1..Len(audit) :
        /\ i < j
        /\ audit[i].UserId = audit[j].UserId
        /\ audit[i].Action # audit[j].Action

\* C22: the receipt of a key can be read again after it was deleted: the
\* statement of a deleteReceipt(u, p) leaves no row for (p, u), and an
\* admitted markRead(u, p, t) with t > 0 and a healthy store that follows it
\* returns no error and leaves exactly one row for (p, u), with readAt = t,
\* as a first mark would.
C22_DeletedReceiptReadAgain ==
    /\ [][\A u \in Users, p \in MarkPostIds :
            DeleteStatementStep(u, p) => RowsOf(receipts', p, u) = {}]_vars
    /\ [][LET u == ret'.user
              p == ret'.posts[1]
          IN  ( /\ MarkReadStep
                /\ ret'.fault = "none"
                /\ MarkReadAdmitted(u, p)
                /\ ret'.readAt > 0
                /\ ret.op = "deleteReceipt" /\ ret.err = ErrNone
                /\ ret.user = u /\ ret.posts = <<p>> )
              => /\ ret'.err = ErrNone
                 /\ \E x \in receipts' :
                       /\ RowsOf(receipts', p, u) = {x}
                       /\ x.ReadAt = ret'.readAt ]_vars

\* The summary update i ends in this step with its store calls succeeding:
\* the lookup found no row, or the upsert was made.
RefreshCompletesStep(i) ==
    \/ RefreshWrite(i, "none")
    \/ RefreshGet(i, "none") /\ Len(refreshQ') < Len(refreshQ)

\* The summary of post p that the receipt rows T call for.
SummaryMatches(x, T, p) ==
    LET rs == {r \in T : r.PostId = p}
    IN  /\ x.PostId = p
        /\ x.ReadCount = Cardinality(rs)
        /\ x.TotalRecipients = Len(ChannelMembers(Posts[p].ChannelId))
        /\ \A r \in rs : x.FirstReadAt <= r.ReadAt /\ r.ReadAt <= x.LastReadAt
        /\ rs # {} => \E r1, r2 \in rs :
                         x.FirstReadAt = r1.ReadAt /\ x.LastReadAt = r2.ReadAt

\* C23: when a summary update for a post that has receipts ends with its
\* store calls succeeding, the summary table holds one row for the post,
\* with ReadCount = the number of the post's receipts, TotalRecipients = the
\* member count of its channel and FirstReadAt / LastReadAt = the least /
\* greatest ReadAt of those receipts.
C23_RefreshRecomputesSummary ==
    [][\A i \in 1..Len(refreshQ) :
          ( /\ RefreshCompletesStep(i)
            /\ \E r \in receipts : r.PostId = refreshQ[i].post )
          => \E x \in summaries' :
                /\ \A y \in summaries' : y.PostId = x.PostId => y = x
                /\ SummaryMatches(x, receipts', refreshQ[i].post) ]_vars

\* C24: with the goroutines scheduled and a healthy store, once a receipt for
\* post p1 is stored (by markRead, markReadBatch or backfillChannel), a
\* summary row for p1 eventually exists.
C24_WriteLeadsToSummary ==
    (\E r \in receipts : r.PostId = "p1")
        ~> (\E x \in summaries : x.PostId = "p1")

\* C25: the LastUpdated of a post's stored summary never decreases, whatever
\* the interleaving of the get, stamp and write steps of the summary updates
\* for it.
C25_LastUpdatedNeverDecreases ==
    [][\A x \in summaries : \A y \in summaries' :
          x.PostId = y.PostId => x.LastUpdated <= y.LastUpdated]_vars

\* The step is a step of the summary update i, failing or not.
RefreshTaskStep(i) ==
    \/ RefreshStamp(i)
    \/ \E f \in Faults : RefreshGet(i, f) \/ RefreshWrite(i, f)

\* C26: an admitted markRead with readAt > 0 and a healthy receipt store
\* returns the stored receipt without error and starts the summary update;
\* no step of a summary update, failing or not, changes the receipt table or
\* what the call returned.
C26_RefreshFailureLeavesMarkRead ==
    /\ [][LET u == ret'.user
              p == ret'.posts[1]
          IN  ( /\ MarkReadStep
                /\ ret'.fault = "none"
                /\ MarkReadAdmitted(u, p)
                /\ ret'.readAt > 0 )
              => /\ ret'.err = ErrNone
                 /\ Len(ret'.receipts) = 1
                 /\ ret'.receipts[1] \in RowsOf(receipts', p, u)
                 /\ Len(refreshQ') = Len(refreshQ) + 1 ]_vars
    /\ [][(\E i \in 1..Len(refreshQ) : RefreshTaskStep(i))
            => UNCHANGED <<receipts, ret>>]_vars

\* Member m of a channel is to get a synthesized receipt for post p: the
\* member has viewed the channel, not before the post was created, and the
\* post is another user's.
BackfillDue(m, p) ==
    /\ m.LastViewedAt # 0
    /\ Posts[p].CreateAt <= m.LastViewedAt
    /\ Posts[p].UserId # m.UserId

\* The receipts a backfill of channel c is to synthesize when the table is T.
BackfillExpected(c, T) ==
    { Receipt(p, ChannelMembers(c)[k].UserId, c,
              ChannelMembers(c)[k].LastViewedAt, 0, "backfill", "backfill") :
        <<k, p>> \in
          { kp \in (1..Len(ChannelMembers(c)))
                      \X {PostsForChannel(c)[j] : j \in 1..Len(PostsForChannel(c))} :
              /\ BackfillDue(ChannelMembers(c)[kp[1]], kp[2])
              /\ \A x \in T : ~(x.PostId = kp[2]
                                /\ x.UserId = ChannelMembers(c)[kp[1]].UserId) } }

\* The (post, member) keys a scan b has still to look up.
BackfillPending(b) ==
    {<<b.pairs[i].post.Id, b.pairs[i].member.UserId>> : i \in 1..Len(b.pairs)}

\* The (post, member) keys a backfill of channel c is to look up.
BackfillDueKeys(c) ==
    { <<kp[2], ChannelMembers(c)[kp[1]].UserId>> :
        kp \in { x \in (1..Len(ChannelMembers(c)))
                         \X {PostsForChannel(c)[j] : j \in 1..Len(PostsForChannel(c))} :
                   BackfillDue(ChannelMembers(c)[x[1]], x[2]) } }

\* No writer has disturbed the scan b: on the keys it has looked up, what
\* it has queued is what the table T calls for, one receipt per key.
BackfillUndisturbed(b, T) ==
    LET exp == {x \in BackfillExpected(b.ch, T) :
                   <<x.PostId, x.UserId>> \notin BackfillPending(b)}
    IN  /\ {b.queue[i] : i \in 1..Len(b.queue)} = exp
        /\ Len(b.queue) = Cardinality(exp)

\* C27: with a healthy store and no concurrent writer, the receipts a
\* backfill of an eligible channel decides to write are exactly one per
\* (member, post) with a view time other than 0, a post created no later than
\* it, by another user and without a receipt, each with readAt = the member's
\* view time; a backfill that returns at once had none to write; and every
\* write stores its receipt with that readAt and changes no other key.
\* (A scan starts on exactly the due keys with nothing queued; as long as no
\* writer has disturbed it, each lookup keeps it so, and the last one leaves
\* exactly the receipts the table calls for; a write whose key no writer has
\* stored in the meantime stores the queued receipt.)
C27_BackfillSynthesizesDuePairs ==
    /\ [][(bf.phase = "idle" /\ bf'.phase = "scan")
            => /\ bf'.queue = <<>>
               /\ BackfillPending(bf') = BackfillDueKeys(bf'.ch)
               /\ Len(bf'.pairs) = Cardinality(BackfillDueKeys(bf'.ch))]_vars
    /\ [][(bf.phase = "scan" /\ bf' # bf /\ BackfillUndisturbed(bf, receipts))
            => IF bf'.phase = "idle"
               THEN BackfillExpected(bf.ch, receipts) = {}
               ELSE /\ BackfillUndisturbed(bf', receipts')
                    /\ bf'.phase = "write"
                         => {bf'.queue[i] : i \in 1..Len(bf'.queue)}
                              = BackfillExpected(bf.ch, receipts)]_vars
    /\ [][(BackfillRejectedStep /\ ret'.err = ErrNone /\ bf'.phase = "idle")
            => BackfillExpected(ret'.chan, receipts) = {}]_vars
    /\ [][(bf.phase = "write" /\ bf' # bf
              /\ RowsOf(receipts, Head(bf.queue).PostId, Head(bf.queue).UserId) = {})
            => LET r == Head(bf.queue)
               IN  /\ \E x \in receipts' :
                         /\ RowsOf(receipts', r.PostId, r.UserId) = {x}
                         /\ x.ReadAt = r.ReadAt
                         /\ x.ChannelId = r.ChannelId
                   /\ \A x \in receipts :
                         (x.PostId # r.PostId \/ x.UserId # r.UserId)
                           => x \in receipts'
                   /\ \A x \in receipts' :
                         (x.PostId # r.PostId \/ x.UserId # r.UserId)
                           => x \in receipts
                   /\ bf'.queue = Tail(bf.queue)]_vars

\* C27 witness: a backfill of the direct-message channel has returned; u1
\* (view time 2) has a synthesized receipt for p1 read at 2, u2 (view time 1)
\* one for p2 read at 1, and nobody has one for p3, created at 3.
C27_BackfillOfDirectChannelDone ==
    /\ ret.op = "backfillChannel" /\ ret.err = ErrNone /\ ret.chan = "cD"
    /\ bf.phase = "idle"
    /\ \E x \in RowsOf(receipts, "p1", "u1") :
          x.DeviceId = "backfill" /\ x.ReadAt = 2
    /\ \E x \in RowsOf(receipts, "p2", "u2") :
          x.DeviceId = "backfill" /\ x.ReadAt = 1
    /\ \A x \in receipts : x.PostId # "p3"
    /\ RowsOf(receipts, "p1", "u2") = {}
    /\ RowsOf(receipts, "p2", "u1") = {}

\* C28: a write of the backfill leaves a receipt that is stored for its
\* (post, member) pair as it is, with its readAt and its device fields.
C28_BackfillKeepsExistingReceipt ==
    [][(bf.phase = "write" /\ bf' # bf)
         => \A x \in RowsOf(receipts, Head(bf.queue).PostId, Head(bf.queue).UserId) :
               \E y \in receipts' :
                  /\ y.PostId = x.PostId /\ y.UserId = x.UserId
                  /\ y.ReadAt = x.ReadAt
                  /\ y.DeviceId = x.DeviceId
                  /\ y.DeviceType = x.DeviceType]_vars

\* C29: every step of the backfill's write loop, whether its store write
\* fails or succeeds, takes exactly the first receipt off the queue, stores
\* it or leaves the table as it is, and goes on to the next; the step that
\* takes the last one ends the operation and returns success.  The queue
\* gets shorter with every step, so the loop terminates.
C29_BackfillWriteFailureSkipped ==
    [][(bf.phase = "write" /\ bf' # bf)
         => /\ receipts' \in { receipts,
                               UpsertReceipt(receipts, PreSave(Head(bf.queue), now)) }
            /\ IF Len(bf.queue) > 1
               THEN /\ bf'.phase = "write"
                    /\ bf'.queue = Tail(bf.queue)
                    /\ ret' = ret
               ELSE /\ bf'.phase = "idle"
                    /\ ret'.op = "backfillChannel"
                    /\ ret'.chan = bf.ch
                    /\ ret'.err = ErrNone]_vars

\* C29 witness: a backfill of the direct-message channel has returned
\* success; the write for (p1, u1) failed and the one after it, for
\* (p2, u2), was stored.
C29_LaterReceiptStoredAfterFailure ==
    /\ ret.op = "backfillChannel" /\ ret.err = ErrNone /\ ret.chan = "cD"
    /\ bf.phase = "idle"
    /\ receipts = { Receipt("p2", "u2", "cD", 1, now, "backfill", "backfill") }

\* C30: a markRead that returns an error leaves the receipt table unchanged,
\* returns no receipt, publishes no event and starts no summary update; a
\* markRead with readAt = 0 that passes the admission checks returns a
\* ValidationError; and a markRead that publishes an event or starts a
\* summary update has returned no error and stored a row for its key, whose
\* post, user, channel and readAt are those the event carries.
C30_FailedMarkReadHasNoEffect ==
    /\ [][(MarkReadStep /\ ret'.err # ErrNone)
            => /\ receipts' = receipts
               /\ ret'.receipts = <<>>
               /\ ret'.events = {}
               /\ refreshQ' = refreshQ]_vars
    /\ [][(MarkReadStep /\ MarkReadAdmitted(ret'.user, ret'.posts[1])
             /\ ret'.readAt = 0)
            => ErrorClass(ret'.err) = "ValidationError"]_vars
    /\ [][(MarkReadStep /\ (ret'.events # {} \/ refreshQ' # refreshQ))
            => /\ ret'.err = ErrNone
               /\ \E x \in RowsOf(receipts', ret'.posts[1], ret'.user) :
                     \A e \in ret'.events :
                        /\ e.post_id = x.PostId
                        /\ e.user_id = x.UserId
                        /\ e.channel = x.ChannelId
                        /\ e.read_at = x.ReadAt]_vars

\* C30 witness: a markRead with readAt = 0 for a key that has a stored
\* receipt was rejected with a ValidationError and published nothing.
C30_MarkReadRejectedKeyStored ==
    /\ ret.op = "markRead"
    /\ ret.readAt = 0
    /\ ErrorClass(ret.err) = "ValidationError"
    /\ ret.events = {}
    /\ \E x \in receipts :
          x.PostId = ret.posts[1] /\ x.UserId = ret.user /\ x.ReadAt > 0

\* C31: a markReadBatch call resolves every channel at most once, however
\* many of its posts are in the channel and whether the channel is eligible
\* or not.
C31_ChannelResolvedOncePerBatch ==
    ret.op = "markReadBatch"
    => \A i, j \in 1..Len(ret.lookups) : ret.lookups[i] = ret.lookups[j] => i = j

\* C32: after a write the row of every key it wrote carries that write's
\* readAt, createAt and device id: for each post of a markReadBatch that
\* succeeded, and for the receipt of a single SaveReadReceipt that succeeded
\* (the backfill's), whether the key had a row before or not.
C32_WriteOverwritesDeviceFields ==
    /\ [][(MarkReadBatchStep /\ ret'.err = ErrNone)
            => \A i \in 1..Len(ret'.posts) :
                  \A x \in RowsOf(receipts', ret'.posts[i], ret'.user) :
                     /\ x.ReadAt = (IF ret'.readAt = 0 THEN now ELSE ret'.readAt)
                     /\ x.CreateAt = now
                     /\ x.DeviceId = ret'.dev]_vars
    /\ [][(bf.phase = "write" /\ bf' # bf /\ receipts' # receipts)
            => \A x \in RowsOf(receipts', Head(bf.queue).PostId, Head(bf.queue).UserId) :
                  /\ x.ReadAt = Head(bf.queue).ReadAt
                  /\ x.CreateAt = now
                  /\ x.DeviceId = Head(bf.queue).DeviceId
                  /\ x.DeviceType = Head(bf.queue).DeviceType]_vars

\* C33: every stored receipt that was written without a device id has
\* DeviceType unknown, and every receipt a markReadBatch returned has the
\* DeviceType of the row stored for its key.
C33_NoDeviceIdStoredAsUnknown ==
    /\ \A x \in receipts : x.DeviceId = "" => x.DeviceType = DeviceTypeUnknown
    /\ (ret.op = "markReadBatch" /\ ret.err = ErrNone)
         => \A i \in 1..Len(ret.receipts) :
               \A x \in RowsOf(receipts, ret.receipts[i].PostId, ret.user) :
                  x.DeviceType = ret.receipts[i].DeviceType

\* C34: a getInfo that succeeds returns LastRead = the greatest and FirstRead
\* = the least ReadAt of all stored receipts of the post, whatever the
\* viewer's visibility, and 0 for both when the post has no receipt.
C34_InfoTimesOverAllReceipts ==
    [][(GetInfoStep /\ ret'.err = ErrNone)
         => LET rs == {x \in receipts : x.PostId = ret'.posts[1]}
            IN  IF rs = {}
                THEN ret'.info.LastRead = 0 /\ ret'.info.FirstRead = 0
                ELSE /\ \A x \in rs : /\ ret'.info.FirstRead <= x.ReadAt
                                      /\ x.ReadAt <= ret'.info.LastRead
                     /\ \E x \in rs : x.ReadAt = ret'.info.FirstRead
                     /\ \E x \in rs : x.ReadAt = ret'.info.LastRead]_vars

\* C34 witness: a viewer with visibility none got its own receipt only, with
\* a FirstRead that is another user's, earlier, read time.
C34_TimesOfHiddenReceipts ==
    /\ ret.op = "getInfo" /\ ret.err = ErrNone
    /\ ShowNone(ret.user)
    /\ Len(ret.info.ReadReceipts) = 1
    /\ ret.info.FirstRead < ret.info.ReadReceipts[1].ReadAt
    /\ ret.info.LastRead = ret.info.ReadReceipts[1].ReadAt

\* The step is a getUserHistory call.
GetUserHistoryStep ==
    /\ ret'.op = "getUserHistory"
    /\ GetUserHistory(ret'.user, ret'.chan, ret'.since, ret'.limit, ret'.fault)

\* C35: a getUserHistory(u, c, since, limit) that succeeds returns stored
\* receipts of u only, of channel c only when c is given, in non-increasing
\* ReadAt order, at most limit of them and, when since > 0, none read before
\* since; it succeeds for every channel, eligible or not.
C35_HistoryScopedOrderedBounded ==
    [][GetUserHistoryStep
         => /\ (cfg.enable /\ ret'.fault = "none") => ret'.err = ErrNone
            /\ ret'.err = ErrNone
                 => /\ Len(ret'.receipts) <= ret'.limit
                    /\ \A i \in 1..Len(ret'.receipts) :
                          /\ ret'.receipts[i] \in receipts
                          /\ ret'.receipts[i].UserId = ret'.user
                          /\ ret'.chan # "" => ret'.receipts[i].ChannelId = ret'.chan
                          /\ ret'.since > 0 => ret'.receipts[i].ReadAt >= ret'.since
                    /\ \A i, j \in 1..Len(ret'.receipts) :
                          i < j => ret'.receipts[i].ReadAt >= ret'.receipts[j].ReadAt]_vars

\* C36: every stored receipt of an existing post has the ChannelId of that
\* post.
C36_RowChannelIsPostChannel ==
    \A x \in receipts :
        PostExists(x.PostId) => x.ChannelId = Posts[x.PostId].ChannelId

\* C37: no step stores or rewrites a receipt of a user whose effective
\* receipt mode is disabled.
C37_NoReceiptForOptedOutUser ==
    [][\A x \in receipts' \ receipts : ~OptedOut(x.UserId)]_vars

\* C38: for a viewer with visibility none, what a getInfo returns is what it
\* returns on the table without the other users' receipts of the post, which
\* agrees with the stored one on the viewer's own receipt and on the
\* channel's members: the list, ReadCount, FirstRead, LastRead, AllRead and
\* PartiallyRead are the same.
C38_InfoIndependentOfOthers ==
    [][(GetInfoStep /\ ret'.err = ErrNone /\ ShowNone(ret'.user))
         => \E rs \in OrderedByReadAtDesc(RowsOf(receipts, ret'.posts[1], ret'.user)) :
               ret'.info = FilterInfo(StoreGetReadReceiptInfo(ret'.posts[1], rs),
                                      ret'.user)]_vars

\* The receipt rows of T whose key is not (p, u).
OtherKeys(T, p, u) == {x \in T : ~(x.PostId = p /\ x.UserId = u)}

\* C39: a markRead(u, p) or deleteReceipt(u, p) that succeeds leaves every
\* receipt of another (post, user) key as it was, and adds none; getInfo,
\* getUserHistory and getChannelSummaries leave the receipts, the summaries
\* and the audit log unchanged.
C39_SingleKeyFrame ==
    /\ [][(ret'.err = ErrNone /\ receipts' # receipts /\ MarkReadStep)
            => OtherKeys(receipts', ret'.posts[1], ret'.user)
                 = OtherKeys(receipts, ret'.posts[1], ret'.user)]_vars
    /\ [][(receipts' # receipts \/ delQ' # delQ)
            => \A u \in Users, p \in MarkPostIds :
                  DeleteStatementStep(u, p)
                    => OtherKeys(receipts', p, u) = OtherKeys(receipts, p, u)]_vars
    /\ [][(receipts' # receipts) => ~DeleteReturnStep]_vars
    /\ [][(<<receipts, summaries, audit>>' # <<receipts, summaries, audit>>)
            => ~(GetInfoStep \/ GetUserHistoryStep \/ GetChannelSummariesStep)]_vars

\* A deleteReceipt has succeeded while another user's receipt of the same
\* post, which it had to leave alone, is stored.
C39_DeleteNextToOtherReceipt ==
    /\ ret.op = "deleteReceipt"
    /\ ret.err = ErrNone
    /\ \E x \in receipts : x.PostId = ret.posts[1] /\ x.UserId # ret.user
    /\ RowsOf(receipts, ret.posts[1], ret.user) = {}

\* Some post id of the request is outside what the session may read.
LacksPermission(req, permitted) ==
    \E i \in 1..Len(req.PostIds) : req.PostIds[i] \notin permitted

\* The request names no post, or more than a hundred.
BadSize(req) == Len(req.PostIds) = 0 \/ Len(req.PostIds) > 100

\* C40: a request to the batch endpoint that names no post or more than 100
\* posts, or names a post the session may not read, is answered with an
\* error and no receipt is written, changed or removed.  (The result of a
\* step repeats the request it answered, so the request is read from it.)
C40_BatchEndpointAllOrNothing ==
    [][LET req == [PostIds |-> ret'.posts, ChannelId |-> ret'.chan,
                   ReadAt |-> ret'.readAt, DeviceId |-> ret'.dev]
       IN  \A permitted \in SessionPermissions :
              ((BadSize(req) \/ LacksPermission(req, permitted))
                 /\ MarkPostsAsReadBatch(ret'.user, req, permitted, ret'.fault))
                => (ret'.err # ErrNone /\ receipts' = receipts)]_vars

\* The endpoint has refused a request for two posts of which the session may
\* read only the first, after a receipt was stored for another request; the
\* batch would have stored the refused request's posts otherwise.
C40_RefusedForOnePost ==
    /\ ret.op = "markPostsAsReadBatch"
    /\ ret.err = ErrPermission
    /\ ret.posts = <<"p3", "p4">>
    /\ receipts # {}
    /\ \A x \in receipts : ~(x.UserId = ret.user /\ x.PostId \in {"p3", "p4"})
    /\ FeatureEnabled
    /\ ~OptedOut(ret.user)

====
